---- MODULE Spec2Model ----
(***************************************************************************)
(* Optimistic state reconciliation of the smart-shopping-list client.      *)
(*                                                                         *)
(* Three React components each hold one optimistic store                   *)
(* (useOptimistic(passthrough, reducer)):                                  *)
(*   ListsContainer  - the list of lists        (optimisticLists)          *)
(*   ShoppingList    - the items of one list    (optimisticItems)          *)
(*   ShareListForm   - the shared users of one list (optimisticSharedWith) *)
(* A store is the passthrough snapshot handed down by the page plus the    *)
(* queue of optimistic actions not yet discarded; the visible collection   *)
(* is the reducer folded over that queue, starting from the snapshot.      *)
(* The server actions of actions.ts act on the data base; the page hands   *)
(* down a fresh snapshot on a refresh.                                     *)
(***************************************************************************)
EXTENDS Integers, Sequences, FiniteSets, TLC

(***************************************************************************)
(* Bounds of the model.                                                    *)
(***************************************************************************)
\* user-triggered mutation instances in one behaviour
MaxMutations == 2
\* the last reading of the millisecond clock behind Date.now(), from 0
MaxClock == 1
\* the longest snapshot handed to the reducer on its own
MaxLen == 3
\* the most actions dispatched to a store on its own
MaxUpdates == 3

(***************************************************************************)
(* Identities.  An id is a pair: <<"temp", n>> is the string "temp-<n>",   *)
(* any other first component is an id handed out by the data base.         *)
(***************************************************************************)
NoId == <<"none", 0>>

\* id.startsWith("temp-")
IsTemp(id) == id[1] = "temp"

Me == <<"user", 1>>
U2 == <<"user", 2>>
U3 == <<"user", 3>>

ListA == <<"list", 1>>
ListB == <<"list", 2>>
ListC == <<"list", 3>>

\* Strings are sequences of characters, so that trim() is computed.
Str(c) == <<c>>
Blank == " "

RECURSIVE TrimLeft(_)
TrimLeft(s) == IF s # <<>> /\ Head(s) = Blank THEN TrimLeft(Tail(s)) ELSE s

RECURSIVE TrimRight(_)
TrimRight(s) ==
  IF s # <<>> /\ s[Len(s)] = Blank THEN TrimRight(SubSeq(s, 1, Len(s) - 1)) ELSE s

\* String.prototype.trim
Trim(s) == TrimRight(TrimLeft(s))

\* what the user can type into a title or name input
TypedTitles == { <<Blank>>, <<Blank, "d">> }

\* the e-mail address of a registered user
Email(u) == <<(CASE u[2] = 1 -> "x" [] u[2] = 2 -> "y" [] OTHER -> "z"), "@">>

\* what the user can type into the e-mail input: the address of U3 with a
\* leading blank, an address nobody is registered under, and the address of U2
TypedEmails == { <<Blank>> \o Email(U3), <<"w", "@">>, Email(U2) }

(***************************************************************************)
(* Records.                                                                *)
(***************************************************************************)
Item(id, name, done, by) ==
  [id |-> id, name |-> name, isCompleted |-> done, addedBy |-> by]

SharedUser(id, mail) == [id |-> id, email |-> mail]

List(id, title, ownerId, items, sharedWith) ==
  [id |-> id, title |-> title, ownerId |-> ownerId, owner |-> Email(ownerId),
   items |-> items, sharedWith |-> sharedWith]

\* an absent `list` argument of a reducer action; null for listToDelete
NoList == List(NoId, <<>>, NoId, <<>>, <<>>)

\* null for itemToDelete
NoItem == Item(NoId, <<>>, FALSE, NoId)

\* null for userToRemove
NoUser == SharedUser(NoId, <<>>)

VARIABLES
  component,      \* the component the user works in during this behaviour
  dbLists,        \* the data base: shopping lists, newest first, with items and shares
  dbSeq,          \* ids handed out by the data base so far
  allLists,       \* the lists the page handed down (prop allLists)
  calls,          \* authoritative calls in flight, with what their handlers captured
  started,        \* mutation instances triggered so far
  toasts,         \* failure notices raised so far (toast.error)
  clock,          \* the reading of Date.now()
  dropped,        \* confirmed changes a handler returned from without acting, with
                  \* the entities then in flight (history; a repeated confirmation
                  \* is kept until its call is resolved)
  unwritten,      \* items whose deleteItem / toggleItem call wrote nothing (history)
  listUpdates,    \* ListsContainer: optimistic actions not yet discarded
  uuids,          \* crypto.randomUUID() values drawn so far
  isCreating,     \* CreateListForm
  isDeleting,     \* ListsContainer
  isLeaving,
  listToDelete,
  listToLeave,
  editingListId,
  processingRenameRef,
  skipBlurRef,    \* set by Escape in the rename input, cleared by the next onBlur
  itemUpdates,    \* ShoppingList: optimistic actions not yet discarded
  newItemName,    \* ShoppingList
  isAddingItem,
  itemToDelete,
  isDeletingItem,
  editingItemId,
  processingItemRenameRef,
  skipItemBlurRef,
  shareUpdates,   \* ShareListForm: optimistic actions not yet discarded
  email,          \* ShareListForm
  userToRemove,
  isRemovingUser

serverVars == <<dbLists, dbSeq>>

listsVars == <<listUpdates, uuids, isCreating, isDeleting, isLeaving, listToDelete,
               listToLeave, editingListId, processingRenameRef, skipBlurRef>>

itemsVars == <<itemUpdates, newItemName, isAddingItem, itemToDelete, isDeletingItem,
               editingItemId, processingItemRenameRef, skipItemBlurRef>>

shareVars == <<shareUpdates, email, userToRemove, isRemovingUser>>

vars == <<component, serverVars, allLists, calls, started, toasts, clock, dropped,
          unwritten, listsVars, itemsVars, shareVars>>

(***************************************************************************)
(* Sequence helpers (Array.prototype).                                     *)
(***************************************************************************)
\* state.some(x => x.id === id)
SomeId(state, id) == \E i \in 1..Len(state) : state[i].id = id

\* state.findIndex(x => x.id === id), 0-based, -1 when absent
FindIndex(state, id) ==
  IF SomeId(state, id)
  THEN (CHOOSE i \in 1..Len(state) :
          state[i].id = id /\ \A j \in 1..(i - 1) : state[j].id # id) - 1
  ELSE -1

\* a filter that drops the head when no element has the id
FilterOutIdOrHead(state, id) ==
  IF \E i \in 1..Len(state) : state[i].id = id
  THEN SelectSeq(state, LAMBDA x : x.id # id)
  ELSE IF state = <<>> THEN state ELSE Tail(state)

\* state.filter(x => x.id !== id)
FilterOutId(state, id) == SelectSeq(state, LAMBDA x : x.id # id)

\* copy of state with x spliced in at the 0-based index (clamped to the length)
SpliceIn(state, index, x) ==
  LET at == IF index > Len(state) THEN Len(state) ELSE index
  IN  SubSeq(state, 1, at) \o <<x>> \o SubSeq(state, at + 1, Len(state))

Ids(state) == { state[i].id : i \in 1..Len(state) }

(***************************************************************************)
(* ListsContainer: the reducer of optimisticLists.                         *)
(***************************************************************************)
ListAction(action, listId, list) ==
  [action |-> action, listId |-> listId, list |-> list]

ListsAdd(state, a) ==
  IF a.list = NoList \/ SomeId(state, a.list.id) THEN state ELSE <<a.list>> \o state

ListsDelete(state, a) ==
  IF a.listId = NoId THEN state ELSE FilterOutId(state, a.listId)

\* a restore that puts the list in front, wherever it stood
ListsRestoreFront(state, a, snapshot) ==
  IF a.list = NoList \/ a.listId = NoId \/ SomeId(state, a.list.id)
  THEN state
  ELSE <<a.list>> \o state

\* a restore that puts the list at the end, wherever it stood
ListsRestoreAppended(state, a, snapshot) ==
  IF a.list = NoList \/ a.listId = NoId \/ SomeId(state, a.list.id)
  THEN state
  ELSE Append(state, a.list)

ListsRestore(state, a, snapshot) ==
  IF a.list = NoList \/ a.listId = NoId \/ SomeId(state, a.list.id)
  THEN state
  ELSE LET originalIndex == FindIndex(snapshot, a.listId)
       IN  IF originalIndex < 0
           THEN Append(state, a.list)
           ELSE SpliceIn(state, originalIndex, a.list)

\* a replace that moves the new list to the front
ListsReplaceFront(state, a) ==
  IF a.list = NoList \/ a.listId = NoId \/ ~SomeId(state, a.listId)
  THEN state
  ELSE <<a.list>> \o FilterOutId(state, a.listId)

ListsReplace(state, a) ==
  IF a.list = NoList \/ a.listId = NoId
  THEN state
  ELSE [i \in 1..Len(state) |-> IF state[i].id = a.listId THEN a.list ELSE state[i]]

ListsRename(state, a) ==
  IF a.list = NoList \/ a.listId = NoId
  THEN state
  ELSE [i \in 1..Len(state) |->
          IF state[i].id = a.listId
          THEN [state[i] EXCEPT !.title = a.list.title]
          ELSE state[i]]

ListsReducer(state, a, snapshot) ==
  CASE a.action = "add"     -> ListsAdd(state, a)
    [] a.action = "delete"  -> ListsDelete(state, a)
    [] a.action = "restore" -> ListsRestore(state, a, snapshot)
    [] a.action = "replace" -> ListsReplace(state, a)
    [] a.action = "rename"  -> ListsRename(state, a)
    [] OTHER                -> state

\* useOptimistic: the queued actions replayed, in order, over the passthrough
RECURSIVE ListsFold(_, _, _)
ListsFold(state, updates, snapshot) ==
  IF updates = <<>>
  THEN state
  ELSE ListsFold(ListsReducer(state, Head(updates), snapshot), Tail(updates), snapshot)

ListsView(snapshot, updates) == ListsFold(snapshot, updates, snapshot)

optimisticLists == ListsView(allLists, listUpdates)


(***************************************************************************)
(* ShoppingList: the reducer of optimisticItems.  The component shown is   *)
(* the one of list A; its prop `items` comes from the page.                *)
(***************************************************************************)
ItemAction(action, itemId, itemName, addedBy) ==
  [action |-> action, itemId |-> itemId, itemName |-> itemName, addedBy |-> addedBy]

\* a toggle that flips every item
ItemsToggleAll(state, a) ==
  [i \in 1..Len(state) |-> [state[i] EXCEPT !.isCompleted = ~state[i].isCompleted]]

ItemsToggle(state, a) ==
  [i \in 1..Len(state) |->
     IF state[i].id = a.itemId
     THEN [state[i] EXCEPT !.isCompleted = ~state[i].isCompleted]
     ELSE state[i]]

\* a delete that removes nothing
ItemsDeleteNothing(state, a) == state

ItemsDelete(state, a) == FilterOutId(state, a.itemId)

ItemsAdd(state, a) == Append(state, Item(a.itemId, a.itemName, FALSE, a.addedBy))

ItemsRename(state, a) ==
  [i \in 1..Len(state) |->
     IF state[i].id = a.itemId
     THEN [state[i] EXCEPT !.name = IF a.itemName # <<>> THEN a.itemName ELSE state[i].name]
     ELSE state[i]]

ItemsReducer(state, a) ==
  CASE a.action = "toggle" -> ItemsToggle(state, a)
    [] a.action = "delete" -> ItemsDelete(state, a)
    [] a.action = "add"    -> ItemsAdd(state, a)
    [] a.action = "rename" -> ItemsRename(state, a)
    [] OTHER               -> state

RECURSIVE ItemsView(_, _)
ItemsView(state, updates) ==
  IF updates = <<>>
  THEN state
  ELSE ItemsView(ItemsReducer(state, Head(updates)), Tail(updates))

\* the list of the page the two inner components belong to
listId == ListA

\* what ListsContainer hands to the inner components of a list
ListProp(lists, id) == IF SomeId(lists, id) THEN lists[FindIndex(lists, id) + 1] ELSE NoList

items == ListProp(optimisticLists, listId).items

optimisticItems == ItemsView(items, itemUpdates)

(***************************************************************************)
(* ShareListForm: the reducer of optimisticSharedWith.                     *)
(***************************************************************************)
ShareAction(action, user) == [action |-> action, user |-> user]

ShareAdd(state, a) ==
  IF \E i \in 1..Len(state) : state[i].email = a.user.email
  THEN state
  ELSE Append(state, a.user)

ShareRemove(state, a) == FilterOutId(state, a.user.id)

ShareReducer(state, a) ==
  CASE a.action = "add"    -> ShareAdd(state, a)
    [] a.action = "remove" -> ShareRemove(state, a)
    [] OTHER               -> state

RECURSIVE ShareView(_, _)
ShareView(state, updates) ==
  IF updates = <<>>
  THEN state
  ELSE ShareView(ShareReducer(state, Head(updates)), Tail(updates))

sharedWith == ListProp(optimisticLists, listId).sharedWith

optimisticSharedWith == ShareView(sharedWith, shareUpdates)

(***************************************************************************)
(* The server actions of actions.ts, as transformations of the data base.  *)
(* The session user is Me.                                                 *)
(***************************************************************************)
SharedIds(l) == { l.sharedWith[i].id : i \in 1..Len(l.sharedWith) }

\* page.tsx: the lists the user owns or is shared on, newest first
PageLists(db) ==
  SelectSeq(db, LAMBDA l : l.ownerId = Me \/ Me \in SharedIds(l))

\* createListSchema: a title of 1..50 characters
TitleOk(title) == Len(title) >= 1 /\ Len(title) <= 50

\* createItemSchema: a name of 1..100 characters
NameOk(name) == Len(name) >= 1 /\ Len(name) <= 100

\* shareListSchema: trimmed, then an e-mail address
EmailOk(mail) == \E i \in 1..Len(Trim(mail)) : Trim(mail)[i] = "@"

\* prisma.shoppingList.create: the new list, owned by the session user
CreatedList(seq, title) == List(<<"list", seq + 1>>, title, Me, <<>>, <<>>)

DbCreateList(db, seq, title) == <<CreatedList(seq, title)>> \o db

\* the lists with this id, whoever owns them
ListCount(db, id) == Cardinality({ i \in 1..Len(db) : db[i].id = id })

\* deleteMany({id, ownerId: session.user.id}).count
OwnedCount(db, id) ==
  Cardinality({ i \in 1..Len(db) : db[i].id = id /\ db[i].ownerId = Me })

DbDeleteList(db, id) ==
  SelectSeq(db, LAMBDA l : ~(l.id = id /\ l.ownerId = Me))

DbRenameList(db, id, title) ==
  [i \in 1..Len(db) |->
     IF db[i].id = id /\ db[i].ownerId = Me
     THEN [db[i] EXCEPT !.title = title]
     ELSE db[i]]

\* update({id, sharedWith: {some: {id: me}}}) finds a record
CanLeave(db, id) ==
  \E i \in 1..Len(db) : db[i].id = id /\ Me \in SharedIds(db[i])

DbLeave(db, id) ==
  [i \in 1..Len(db) |->
     IF db[i].id = id
     THEN [db[i] EXCEPT !.sharedWith = FilterOutId(db[i].sharedWith, Me)]
     ELSE db[i]]

\* the item table, as the items of all lists
ItemExists(db, itemId) == \E i \in 1..Len(db) : SomeId(db[i].items, itemId)

\* prisma.item.create
DbAddItem(db, seq, id, name) ==
  [i \in 1..Len(db) |->
     IF db[i].id = id
     THEN [db[i] EXCEPT !.items = Append(db[i].items,
                                         Item(<<"item", seq + 1>>, name, FALSE, Me))]
     ELSE db[i]]

\* prisma.item.delete
DbDeleteItem(db, itemId) ==
  [i \in 1..Len(db) |-> [db[i] EXCEPT !.items = FilterOutId(db[i].items, itemId)]]

\* prisma.item.update({isCompleted: !isCompleted})
DbToggleItem(db, itemId, isCompleted) ==
  [i \in 1..Len(db) |->
     [db[i] EXCEPT !.items =
        [j \in 1..Len(db[i].items) |->
           IF db[i].items[j].id = itemId
           THEN [db[i].items[j] EXCEPT !.isCompleted = ~isCompleted]
           ELSE db[i].items[j]]]]

\* prisma.item.update({name})
DbRenameItem(db, itemId, name) ==
  [i \in 1..Len(db) |->
     [db[i] EXCEPT !.items =
        [j \in 1..Len(db[i].items) |->
           IF db[i].items[j].id = itemId
           THEN [db[i].items[j] EXCEPT !.name = name]
           ELSE db[i].items[j]]]]

\* the registered users
Users == {Me, U2, U3}

\* prisma.user.findUnique({email})
UserToShare(mail) ==
  IF \E u \in Users : Email(u) = mail
  THEN CHOOSE u \in Users : Email(u) = mail
  ELSE NoId

\* a connect that adds a row whether or not the user is connected
DbShareAgain(db, id, userId) ==
  [i \in 1..Len(db) |->
     IF db[i].id = id /\ db[i].ownerId = Me
     THEN [db[i] EXCEPT !.sharedWith = Append(db[i].sharedWith,
                                              SharedUser(userId, Email(userId)))]
     ELSE db[i]]

\* update({id, ownerId}, {sharedWith: {connect}})
DbShare(db, id, userId) ==
  [i \in 1..Len(db) |->
     IF db[i].id = id /\ db[i].ownerId = Me /\ userId \notin SharedIds(db[i])
     THEN [db[i] EXCEPT !.sharedWith = Append(db[i].sharedWith,
                                              SharedUser(userId, Email(userId)))]
     ELSE db[i]]

\* update({id, ownerId}, {sharedWith: {disconnect}})
DbUnshare(db, id, userId) ==
  [i \in 1..Len(db) |->
     IF db[i].id = id /\ db[i].ownerId = Me
     THEN [db[i] EXCEPT !.sharedWith = FilterOutId(db[i].sharedWith, userId)]
     ELSE db[i]]

(***************************************************************************)
(* Authoritative calls in flight.  A call keeps what its handler closed    *)
(* over: the entity (list, item or user), the tentative id (temp), the     *)
(* submitted text (title, name or e-mail) and the isCompleted it sends;     *)
(* before is history: the ids on screen when the mutation was triggered.   *)
(* stage "sent": not yet processed; "answered": the result is on its way   *)
(* back.  result: "ok" the action took effect, "fail" {success:false},     *)
(* "reject" the promise rejects.                                           *)
(***************************************************************************)
Call(n, kind, entity, temp, text, isCompleted) ==
  [n |-> n, kind |-> kind, entity |-> entity, temp |-> temp, text |-> text,
   isCompleted |-> isCompleted, stage |-> "sent", result |-> "none", reply |-> NoList,
   before |-> <<>>]

Answered(c, result, reply) ==
  [c EXCEPT !.stage = "answered", !.result = result, !.reply = reply]

ListKinds == {"createList", "deleteList", "renameList", "leaveSharedList"}

ItemKinds == {"addItem", "deleteItem", "toggleItem", "renameItem"}

ShareKinds == {"shareList", "removeSharedUser"}

\* deleteItem and toggleItem return nothing and catch nothing
VoidKinds == {"deleteItem", "toggleItem"}

\* whether the server action would take effect on this data base
Effective(db, c) ==
  CASE c.kind = "createList" -> TitleOk(c.text)
    [] c.kind = "deleteList" -> OwnedCount(db, c.entity.id) > 0
    [] c.kind = "renameList" -> TitleOk(c.text) /\ OwnedCount(db, c.entity.id) > 0
    [] c.kind = "leaveSharedList" -> CanLeave(db, c.entity.id)
    [] c.kind = "addItem" -> NameOk(c.text) /\ SomeId(db, listId)
    [] c.kind = "deleteItem" -> ItemExists(db, c.entity.id)
    [] c.kind = "toggleItem" -> ItemExists(db, c.entity.id)
    [] c.kind = "renameItem" -> NameOk(c.text) /\ ItemExists(db, c.entity.id)
    [] c.kind = "shareList" ->
         /\ EmailOk(c.text)
         /\ UserToShare(Trim(c.text)) \notin {NoId, Me}
         /\ OwnedCount(db, listId) > 0
    [] c.kind = "removeSharedUser" -> OwnedCount(db, listId) > 0
    [] OTHER -> FALSE

DbApply(db, seq, c) ==
  CASE c.kind = "createList" -> DbCreateList(db, seq, c.text)
    [] c.kind = "deleteList" -> DbDeleteList(db, c.entity.id)
    [] c.kind = "renameList" -> DbRenameList(db, c.entity.id, c.text)
    [] c.kind = "leaveSharedList" -> DbLeave(db, c.entity.id)
    [] c.kind = "addItem" -> DbAddItem(db, seq, listId, c.text)
    [] c.kind = "deleteItem" -> DbDeleteItem(db, c.entity.id)
    [] c.kind = "toggleItem" -> DbToggleItem(db, c.entity.id, c.isCompleted)
    [] c.kind = "renameItem" -> DbRenameItem(db, c.entity.id, c.text)
    [] c.kind = "shareList" -> DbShare(db, listId, UserToShare(Trim(c.text)))
    [] c.kind = "removeSharedUser" -> DbUnshare(db, listId, c.entity.id)
    [] OTHER -> db

\* the record a successful call returns, where the handler reads one
Reply(seq, c) == IF c.kind = "createList" THEN CreatedList(seq, c.text) ELSE NoList

\* the ways a call can end
Outcomes(c) == IF c.kind \in VoidKinds THEN {"ok", "reject"} ELSE {"ok", "fail", "reject"}

(***************************************************************************)
(* Initial state: three lists, newest first.  A and C belong to the user,  *)
(* B belongs to U2 and is shared with the user.  A holds two items and is  *)
(* shared with U2.                                                         *)
(***************************************************************************)
InitItems ==
  << Item(<<"item", 1>>, Str("m"), FALSE, Me),
     Item(<<"item", 2>>, Str("e"), TRUE, U2) >>

InitDb ==
  << List(ListA, Str("a"), Me, InitItems, <<SharedUser(U2, Email(U2))>>),
     List(ListB, Str("b"), U2, <<>>, <<SharedUser(Me, Email(Me))>>),
     List(ListC, Str("c"), Me, <<>>, <<>>) >>

Components == {"ListsContainer", "ShoppingList", "ShareListForm"}

\* nothing in flight, every dialog closed, every input empty
Idle ==
  /\ calls = {}
  /\ started = 0
  /\ toasts = 0
  /\ clock = 0
  /\ dropped = {}
  /\ unwritten = {}
  /\ listUpdates = <<>>
  /\ uuids = 0
  /\ isCreating = FALSE
  /\ isDeleting = FALSE
  /\ isLeaving = FALSE
  /\ listToDelete = NoList
  /\ listToLeave = NoList
  /\ editingListId = NoId
  /\ processingRenameRef = FALSE
  /\ skipBlurRef = FALSE
  /\ itemUpdates = <<>>
  /\ newItemName = <<>>
  /\ isAddingItem = FALSE
  /\ itemToDelete = NoItem
  /\ isDeletingItem = FALSE
  /\ editingItemId = NoId
  /\ processingItemRenameRef = FALSE
  /\ skipItemBlurRef = FALSE
  /\ shareUpdates = <<>>
  /\ email = <<>>
  /\ userToRemove = NoUser
  /\ isRemovingUser = FALSE

Init ==
  /\ component \in Components
  /\ dbLists = InitDb
  /\ dbSeq = 3
  /\ allLists = PageLists(InitDb)
  /\ Idle

(***************************************************************************)
(* ListsContainer: the handlers up to their await.                         *)
(***************************************************************************)
Visible(id) == SomeId(optimisticLists, id)

Entity(id) == optimisticLists[FindIndex(optimisticLists, id) + 1]

\* the controls of a list of the user, tentative or not
OwnedByMe(l) == l.ownerId = Me

\* the controls of a real list of the user: rename and delete
Owned(l) == l.ownerId = Me /\ ~IsTemp(l.id)

\* The page takes a pointer event: no modal covers it (the modals are fixed,
\* full-screen overlays) and no rename input is open (a click elsewhere first
\* blurs the input; the page is followed again once the input is closed).
PageFree ==
  /\ listToDelete = NoList
  /\ listToLeave = NoList
  /\ editingListId = NoId

\* the ids of the entities a call of this kind is in flight for
InFlight(kind) == { c.entity.id : c \in { x \in calls : x.kind = kind } }

\* the ids of a collection, in order
IdSeq(state) == [i \in 1..Len(state) |-> state[i].id]

Issue(c, view) ==
  /\ calls' = calls \cup {[c EXCEPT !.before = IdSeq(view)]}
  /\ started' = started + 1

\* CreateListForm.handleSubmit and handleCreateList, to the await of createList
SubmitCreate(typed) ==
  LET normalizedTitle == Trim(typed)
      tempListId == <<"temp", uuids + 1>>
      optimisticList == List(tempListId, normalizedTitle, Me, <<>>, <<>>)
  IN  /\ component = "ListsContainer"
      /\ PageFree
      /\ started < MaxMutations
      /\ normalizedTitle # <<>>
      /\ ~isCreating
      /\ isCreating' = TRUE
      /\ uuids' = uuids + 1
      /\ listUpdates' = Append(listUpdates, ListAction("add", NoId, optimisticList))
      /\ Issue(Call(started + 1, "createList", optimisticList, tempListId,
                    normalizedTitle, FALSE), optimisticLists)
      /\ UNCHANGED <<component, serverVars, allLists, toasts, clock, dropped, unwritten,
                     isDeleting, isLeaving, listToDelete, listToLeave, editingListId,
                     processingRenameRef, skipBlurRef, itemsVars, shareVars>>

\* the rename button of a list
StartRename(id) ==
  /\ component = "ListsContainer"
  /\ Visible(id)
  /\ PageFree
  /\ started < MaxMutations
  /\ Owned(Entity(id))
  /\ editingListId' = id
  /\ UNCHANGED <<component, serverVars, allLists, calls, started, toasts, clock, dropped,
                 unwritten, listUpdates, uuids, isCreating, isDeleting, isLeaving,
                 listToDelete, listToLeave, processingRenameRef, skipBlurRef, itemsVars, shareVars>>

\* Escape in the rename input (onKeyDown)
CancelRename ==
  /\ component = "ListsContainer"
  /\ editingListId # NoId
  /\ skipBlurRef' = TRUE
  /\ editingListId' = NoId
  /\ UNCHANGED <<component, serverVars, allLists, calls, started, toasts, clock, dropped,
                 unwritten, listUpdates, uuids, isCreating, isDeleting, isLeaving,
                 listToDelete, listToLeave, processingRenameRef, itemsVars, shareVars>>

\* handleConfirmRename(list) with the latch never looked at
handleConfirmRenameUnlatched(list, typed) ==
  LET trimmedTitle == Trim(typed)
  IN  /\ editingListId' = NoId
      /\ IF trimmedTitle = <<>> \/ trimmedTitle = list.title
         THEN UNCHANGED <<listUpdates, calls, started, processingRenameRef>>
         ELSE /\ started < MaxMutations
              /\ processingRenameRef' = TRUE
              /\ listUpdates' =
                   Append(listUpdates,
                          ListAction("rename", list.id,
                                     [list EXCEPT !.title = trimmedTitle]))
              /\ Issue(Call(started + 1, "renameList", list, NoId,
                            trimmedTitle, FALSE), optimisticLists)
      /\ UNCHANGED <<component, serverVars, allLists, toasts, clock, dropped, unwritten,
                     uuids, isCreating, isDeleting, isLeaving, listToDelete, listToLeave,
                     skipBlurRef, itemsVars, shareVars>>

\* handleConfirmRename(list), to the await of renameList; typed is editTitle
handleConfirmRename(list, typed) ==
  LET trimmedTitle == Trim(typed)
  IN  /\ IF processingRenameRef
         THEN \* the latch is held: return
              /\ dropped' = IF trimmedTitle = <<>> \/ trimmedTitle = list.title
                            THEN dropped
                            ELSE dropped \cup {<<"handleConfirmRename", list.id,
                                                InFlight("renameList")>>}
              /\ UNCHANGED <<listUpdates, calls, started, editingListId,
                             processingRenameRef>>
         ELSE /\ editingListId' = NoId
              /\ IF trimmedTitle = <<>> \/ trimmedTitle = list.title
                 THEN UNCHANGED <<listUpdates, calls, started, processingRenameRef,
                                  dropped>>
                 ELSE /\ started < MaxMutations
                      /\ processingRenameRef' = TRUE
                      /\ listUpdates' =
                           Append(listUpdates,
                                  ListAction("rename", list.id,
                                             [list EXCEPT !.title = trimmedTitle]))
                      /\ Issue(Call(started + 1, "renameList", list, NoId,
                                    trimmedTitle, FALSE), optimisticLists)
                      /\ UNCHANGED dropped
      /\ UNCHANGED <<component, serverVars, allLists, toasts, clock, unwritten, uuids,
                     isCreating, isDeleting, isLeaving, listToDelete, listToLeave,
                     skipBlurRef, itemsVars, shareVars>>

\* onBlur of the rename input rendered for list with editTitle typed
RenameOnBlur(list, typed) ==
  IF skipBlurRef
  THEN /\ skipBlurRef' = FALSE
       /\ UNCHANGED <<component, serverVars, allLists, calls, started, toasts, clock,
                      dropped, unwritten, listUpdates, uuids, isCreating, isDeleting,
                      isLeaving, listToDelete, listToLeave, editingListId,
                      processingRenameRef, itemsVars, shareVars>>
  ELSE handleConfirmRename(list, typed)

\* Enter in the rename input of the list being edited
ConfirmRename(typed) ==
  /\ component = "ListsContainer"
  /\ editingListId # NoId
  /\ Visible(editingListId)
  /\ handleConfirmRename(Entity(editingListId), typed)

\* the rename input of the list being edited loses the focus
BlurRename(typed) ==
  /\ component = "ListsContainer"
  /\ editingListId # NoId
  /\ Visible(editingListId)
  /\ RenameOnBlur(Entity(editingListId), typed)

\* onBlur of the rename input that Enter has just confirmed: the input leaves
\* the page and its blur runs onBlur once more, with the list and the
\* editTitle the input was rendered with
RenameInputBlur(c) ==
  /\ component = "ListsContainer"
  /\ c \in calls
  /\ c.kind = "renameList"
  /\ editingListId = NoId
  /\ RenameOnBlur(c.entity, c.text)

\* onBlur of the rename input that Escape has just closed, where the blur of
\* an input leaving the page reaches its handler
EscapeBlur ==
  /\ component = "ListsContainer"
  /\ editingListId = NoId
  /\ skipBlurRef
  /\ RenameOnBlur(NoList, <<>>)

\* the delete button of a list opens the modal
ClickDelete(id) ==
  /\ component = "ListsContainer"
  /\ Visible(id)
  /\ PageFree
  /\ started < MaxMutations
  /\ Owned(Entity(id))
  /\ ~isDeleting
  /\ listToDelete' = Entity(id)
  /\ UNCHANGED <<component, serverVars, allLists, calls, started, toasts, clock, dropped,
                 unwritten, listUpdates, uuids, isCreating, isDeleting, isLeaving,
                 listToLeave, editingListId, processingRenameRef, skipBlurRef, itemsVars, shareVars>>

\* Escape, Cancel or a click on the overlay of the delete modal
CancelDelete ==
  /\ component = "ListsContainer"
  /\ listToDelete # NoList
  /\ listToDelete' = NoList
  /\ UNCHANGED <<component, serverVars, allLists, calls, started, toasts, clock, dropped,
                 unwritten, listUpdates, uuids, isCreating, isDeleting, isLeaving,
                 listToLeave, editingListId, processingRenameRef, skipBlurRef, itemsVars, shareVars>>

\* handleConfirmDelete calling deleteList before it touches the store
ConfirmDeleteCallFirst ==
  LET list == listToDelete
  IN  /\ component = "ListsContainer"
      /\ started < MaxMutations
      /\ listToDelete # NoList
      /\ isDeleting' = TRUE
      /\ listToDelete' = NoList
      /\ Issue(Call(started + 1, "deleteList", list, NoId, <<>>, FALSE), optimisticLists)
      /\ UNCHANGED <<component, serverVars, allLists, toasts, clock, dropped, unwritten,
                     listUpdates, uuids, isCreating, isLeaving, listToLeave, editingListId,
                     processingRenameRef, skipBlurRef, itemsVars, shareVars>>

\* handleConfirmDelete, to the await of deleteList
ConfirmDelete ==
  LET list == listToDelete
  IN  /\ component = "ListsContainer"
      /\ started < MaxMutations
      /\ listToDelete # NoList
      /\ isDeleting' = TRUE
      /\ listToDelete' = NoList
      /\ listUpdates' = Append(listUpdates, ListAction("delete", list.id, NoList))
      /\ Issue(Call(started + 1, "deleteList", list, NoId, <<>>, FALSE), optimisticLists)
      /\ UNCHANGED <<component, serverVars, allLists, toasts, clock, dropped, unwritten,
                     uuids, isCreating, isLeaving, listToLeave, editingListId,
                     processingRenameRef, skipBlurRef, itemsVars, shareVars>>

\* Enter and the confirm button of the delete modal both pressed for one
\* confirmation: the second finds the modal closed (listToDelete is null), and
\* handleConfirmDelete, were it called, returns at its first line
DeleteModalSecondConfirm(c) ==
  /\ component = "ListsContainer"
  /\ c \in calls
  /\ c.kind = "deleteList"
  /\ listToDelete = NoList
  /\ dropped' = dropped \cup {<<"handleConfirmDelete", c.entity.id, InFlight("deleteList")>>}
  /\ UNCHANGED <<component, serverVars, allLists, calls, started, toasts, clock,
                 unwritten, listsVars, itemsVars, shareVars>>

\* the unsubscribe button of a list of somebody else opens the modal
ClickLeave(id) ==
  /\ component = "ListsContainer"
  /\ Visible(id)
  /\ PageFree
  /\ started < MaxMutations
  /\ Entity(id).ownerId # Me
  /\ ~isLeaving
  /\ listToLeave' = Entity(id)
  /\ UNCHANGED <<component, serverVars, allLists, calls, started, toasts, clock, dropped,
                 unwritten, listUpdates, uuids, isCreating, isDeleting, isLeaving,
                 listToDelete, editingListId, processingRenameRef, skipBlurRef, itemsVars, shareVars>>

CancelLeave ==
  /\ component = "ListsContainer"
  /\ listToLeave # NoList
  /\ listToLeave' = NoList
  /\ UNCHANGED <<component, serverVars, allLists, calls, started, toasts, clock, dropped,
                 unwritten, listUpdates, uuids, isCreating, isDeleting, isLeaving,
                 listToDelete, editingListId, processingRenameRef, skipBlurRef, itemsVars, shareVars>>

\* handleConfirmLeave, to the await of leaveSharedList
ConfirmLeave ==
  LET list == listToLeave
  IN  /\ component = "ListsContainer"
      /\ started < MaxMutations
      /\ listToLeave # NoList
      /\ isLeaving' = TRUE
      /\ listToLeave' = NoList
      /\ listUpdates' = Append(listUpdates, ListAction("delete", list.id, NoList))
      /\ Issue(Call(started + 1, "leaveSharedList", list, NoId, <<>>, FALSE), optimisticLists)
      /\ UNCHANGED <<component, serverVars, allLists, toasts, clock, dropped, unwritten,
                     uuids, isCreating, isDeleting, listToDelete, editingListId,
                     processingRenameRef, skipBlurRef, itemsVars, shareVars>>

(***************************************************************************)
(* ShoppingList: the handlers up to their await.                           *)
(***************************************************************************)
ItemVisible(id) == SomeId(optimisticItems, id)

ItemEntity(id) == optimisticItems[FindIndex(optimisticItems, id) + 1]

\* no delete modal covers the page and no item name is being edited
ItemsPageFree ==
  /\ itemToDelete = NoItem
  /\ editingItemId = NoId

\* the readings Date.now() can give: the clock does not run backwards
Now == clock..MaxClock

\* onSubmit of the add form, to the await of addItem; typed is newItemName,
\* now is Date.now()
SubmitAdd(typed, now) ==
  LET trimmedName == Trim(typed)
      tempId == <<"temp", now>>
  IN  /\ component = "ShoppingList"
      /\ ItemsPageFree
      /\ started < MaxMutations
      /\ trimmedName # <<>>
      /\ ~isAddingItem
      /\ itemUpdates' = Append(itemUpdates, ItemAction("add", tempId, trimmedName, Me))
      /\ newItemName' = <<>>
      /\ isAddingItem' = TRUE
      /\ clock' = now
      /\ Issue(Call(started + 1, "addItem", Item(tempId, trimmedName, FALSE, Me),
                    tempId, trimmedName, FALSE), optimisticItems)
      /\ UNCHANGED <<component, serverVars, allLists, toasts, dropped, unwritten,
                     listsVars, itemToDelete, isDeletingItem, editingItemId,
                     processingItemRenameRef, skipItemBlurRef, shareVars>>

\* the action of the toggle form of an item, to the await of toggleItem
Toggle(id) ==
  LET item == ItemEntity(id)
  IN  /\ component = "ShoppingList"
      /\ ItemVisible(id)
      /\ ItemsPageFree
      /\ started < MaxMutations
      /\ ~IsTemp(id)
      /\ itemUpdates' = Append(itemUpdates, ItemAction("toggle", id, <<>>, NoId))
      /\ Issue(Call(started + 1, "toggleItem", item, NoId, <<>>, item.isCompleted), optimisticItems)
      /\ UNCHANGED <<component, serverVars, allLists, toasts, clock, dropped, unwritten,
                     listsVars, newItemName, isAddingItem, itemToDelete, isDeletingItem,
                     editingItemId, processingItemRenameRef, skipItemBlurRef, shareVars>>

\* the rename button of an item
StartItemRename(id) ==
  /\ component = "ShoppingList"
  /\ ItemVisible(id)
  /\ ItemsPageFree
  /\ started < MaxMutations
  /\ ~IsTemp(id)
  /\ editingItemId' = id
  /\ UNCHANGED <<component, serverVars, allLists, calls, started, toasts, clock, dropped,
                 unwritten, listsVars, itemUpdates, newItemName, isAddingItem,
                 itemToDelete, isDeletingItem, processingItemRenameRef, skipItemBlurRef, shareVars>>

\* Escape in the rename input of an item
CancelItemRename ==
  /\ component = "ShoppingList"
  /\ editingItemId # NoId
  /\ skipItemBlurRef' = TRUE
  /\ editingItemId' = NoId
  /\ UNCHANGED <<component, serverVars, allLists, calls, started, toasts, clock, dropped,
                 unwritten, listsVars, itemUpdates, newItemName, isAddingItem,
                 itemToDelete, isDeletingItem, processingItemRenameRef, shareVars>>

\* handleConfirmItemRename(item), to the await of renameItem; typed is editItemName
handleConfirmItemRename(item, typed) ==
  LET trimmedName == Trim(typed)
  IN  /\ IF processingItemRenameRef
         THEN \* the latch is held: return
              /\ dropped' = IF trimmedName = <<>> \/ trimmedName = item.name
                            THEN dropped
                            ELSE dropped \cup {<<"handleConfirmItemRename", item.id,
                                                InFlight("renameItem")>>}
              /\ UNCHANGED <<itemUpdates, calls, started, editingItemId,
                             processingItemRenameRef>>
         ELSE /\ editingItemId' = NoId
              /\ IF trimmedName = <<>> \/ trimmedName = item.name
                 THEN UNCHANGED <<itemUpdates, calls, started, processingItemRenameRef,
                                  dropped>>
                 ELSE /\ started < MaxMutations
                      /\ processingItemRenameRef' = TRUE
                      /\ itemUpdates' =
                           Append(itemUpdates,
                                  ItemAction("rename", item.id, trimmedName, NoId))
                      /\ Issue(Call(started + 1, "renameItem", item, NoId,
                                    trimmedName, FALSE), optimisticItems)
                      /\ UNCHANGED dropped
      /\ UNCHANGED <<component, serverVars, allLists, toasts, clock, unwritten, listsVars,
                     newItemName, isAddingItem, itemToDelete, isDeletingItem,
                     skipItemBlurRef, shareVars>>

\* onBlur of the rename input rendered for item with editItemName typed
ItemRenameOnBlur(item, typed) ==
  IF skipItemBlurRef
  THEN /\ skipItemBlurRef' = FALSE
       /\ UNCHANGED <<component, serverVars, allLists, calls, started, toasts, clock,
                      dropped, unwritten, listsVars, itemUpdates, newItemName,
                      isAddingItem, itemToDelete, isDeletingItem, editingItemId,
                      processingItemRenameRef, shareVars>>
  ELSE handleConfirmItemRename(item, typed)

\* Enter in the rename input of the item being edited
ConfirmItemRename(typed) ==
  /\ component = "ShoppingList"
  /\ editingItemId # NoId
  /\ ItemVisible(editingItemId)
  /\ handleConfirmItemRename(ItemEntity(editingItemId), typed)

\* the rename input of the item being edited loses the focus
BlurItemRename(typed) ==
  /\ component = "ShoppingList"
  /\ editingItemId # NoId
  /\ ItemVisible(editingItemId)
  /\ ItemRenameOnBlur(ItemEntity(editingItemId), typed)

\* onBlur of the item rename input that Escape has just closed, where the
\* blur of an input leaving the page reaches its handler
EscapeItemBlur ==
  /\ component = "ShoppingList"
  /\ editingItemId = NoId
  /\ skipItemBlurRef
  /\ ItemRenameOnBlur(NoItem, <<>>)

\* the delete button of an item opens the modal
ClickDeleteItem(id) ==
  /\ component = "ShoppingList"
  /\ ItemVisible(id)
  /\ ItemsPageFree
  /\ started < MaxMutations
  /\ ~IsTemp(id)
  /\ itemToDelete' = ItemEntity(id)
  /\ UNCHANGED <<component, serverVars, allLists, calls, started, toasts, clock, dropped,
                 unwritten, listsVars, itemUpdates, newItemName, isAddingItem,
                 isDeletingItem, editingItemId, processingItemRenameRef, skipItemBlurRef, shareVars>>

\* Escape, Cancel or a click on the overlay of the item delete modal
CancelDeleteItem ==
  /\ component = "ShoppingList"
  /\ itemToDelete # NoItem
  /\ itemToDelete' = NoItem
  /\ UNCHANGED <<component, serverVars, allLists, calls, started, toasts, clock, dropped,
                 unwritten, listsVars, itemUpdates, newItemName, isAddingItem,
                 isDeletingItem, editingItemId, processingItemRenameRef, skipItemBlurRef, shareVars>>

\* handleConfirmDeleteItem, to the await of deleteItem
ConfirmDeleteItem ==
  LET item == itemToDelete
  IN  /\ component = "ShoppingList"
      /\ started < MaxMutations
      /\ itemToDelete # NoItem
      /\ isDeletingItem' = TRUE
      /\ itemToDelete' = NoItem
      /\ itemUpdates' = Append(itemUpdates, ItemAction("delete", item.id, <<>>, NoId))
      /\ Issue(Call(started + 1, "deleteItem", item, NoId, <<>>, FALSE), optimisticItems)
      /\ UNCHANGED <<component, serverVars, allLists, toasts, clock, dropped, unwritten,
                     listsVars, newItemName, isAddingItem, editingItemId,
                     processingItemRenameRef, skipItemBlurRef, shareVars>>

(***************************************************************************)
(* ShareListForm: the handlers up to their await.                          *)
(***************************************************************************)
UserVisible(id) == SomeId(optimisticSharedWith, id)

UserEntity(id) == optimisticSharedWith[FindIndex(optimisticSharedWith, id) + 1]

\* handleSubmit, to the await of shareList; typed is the e-mail input, now is
\* Date.now()
SubmitInvite(typed, now) ==
  LET normalizedEmail == Trim(typed)
      tempId == <<"temp", now>>
      tempUser == SharedUser(tempId, normalizedEmail)
  IN  /\ component = "ShareListForm"
      /\ userToRemove = NoUser
      /\ started < MaxMutations
      /\ normalizedEmail # <<>>
      /\ shareUpdates' = Append(shareUpdates, ShareAction("add", tempUser))
      /\ email' = <<>>
      /\ clock' = now
      /\ Issue(Call(started + 1, "shareList", tempUser, tempId, normalizedEmail, FALSE), optimisticSharedWith)
      /\ UNCHANGED <<component, serverVars, allLists, toasts, dropped, unwritten,
                     listsVars, itemsVars, userToRemove, isRemovingUser>>

\* the remove button of a shared user opens the modal
ClickRemoveUser(id) ==
  /\ component = "ShareListForm"
  /\ UserVisible(id)
  /\ userToRemove = NoUser
  /\ started < MaxMutations
  /\ ~IsTemp(id)
  /\ userToRemove' = UserEntity(id)
  /\ UNCHANGED <<component, serverVars, allLists, calls, started, toasts, clock, dropped,
                 unwritten, listsVars, itemsVars, shareUpdates, email, isRemovingUser>>

\* Escape, Cancel or a click on the overlay of the remove modal
CancelRemoveUser ==
  /\ component = "ShareListForm"
  /\ userToRemove # NoUser
  /\ userToRemove' = NoUser
  /\ UNCHANGED <<component, serverVars, allLists, calls, started, toasts, clock, dropped,
                 unwritten, listsVars, itemsVars, shareUpdates, email, isRemovingUser>>

\* handleConfirmRemoveUser, to the await of removeSharedUser
ConfirmRemoveUser ==
  LET user == userToRemove
  IN  /\ component = "ShareListForm"
      /\ started < MaxMutations
      /\ userToRemove # NoUser
      /\ isRemovingUser' = TRUE
      /\ userToRemove' = NoUser
      /\ shareUpdates' = Append(shareUpdates, ShareAction("remove", user))
      /\ Issue(Call(started + 1, "removeSharedUser", user, NoId, <<>>, FALSE), optimisticSharedWith)
      /\ UNCHANGED <<component, serverVars, allLists, toasts, clock, dropped, unwritten,
                     listsVars, itemsVars, email>>

(***************************************************************************)
(* The server processes a call: the server action takes effect, or answers *)
(* {success:false} (no session, invalid data, no matching record, a caught *)
(* data base error), or the call is rejected (the transport fails, or an   *)
(* action that catches nothing throws) without a write.                    *)
(***************************************************************************)
ServerExec(c, result) ==
  /\ c \in calls
  /\ c.stage = "sent"
  /\ result \in Outcomes(c)
  /\ result = "ok" => Effective(dbLists, c)
  /\ dbLists' = IF result = "ok" THEN DbApply(dbLists, dbSeq, c) ELSE dbLists
  /\ dbSeq' = IF result = "ok" /\ c.kind \in {"createList", "addItem"}
              THEN dbSeq + 1
              ELSE dbSeq
  /\ calls' = (calls \ {c}) \cup
                {Answered(c, result, IF result = "ok" THEN Reply(dbSeq, c) ELSE NoList)}
  /\ unwritten' = IF c.kind \in VoidKinds /\ result # "ok"
                  THEN unwritten \cup {c.entity.id}
                  ELSE unwritten
  /\ UNCHANGED <<component, allLists, started, toasts, clock, dropped, listsVars,
                 itemsVars, shareVars>>

(***************************************************************************)
(* The handlers after their await.                                         *)
(***************************************************************************)
\* a rejected await leaves the handler; only a finally block still runs
Returns(c) == c.result # "reject"

\* the store actions a ListsContainer handler dispatches once its call has
\* returned; result "void" is a call that resolved with no value
ListsOnResult(c) ==
  CASE c.kind = "createList" /\ c.result \in {"fail", "void"} ->
         <<ListAction("delete", c.temp, NoList)>>
    [] c.kind = "createList" /\ c.result = "ok" /\ c.reply = NoList ->
         <<ListAction("delete", c.temp, NoList)>>
    [] c.kind = "createList" /\ c.result = "ok" /\ c.reply # NoList ->
         <<ListAction("replace", c.temp, c.reply)>>
    [] c.kind = "renameList" /\ c.result = "fail" ->
         <<ListAction("rename", c.entity.id, c.entity)>>
    [] c.kind = "deleteList" /\ c.result = "fail" ->
         <<ListAction("restore", c.entity.id, c.entity)>>
    [] c.kind = "leaveSharedList" /\ c.result = "fail" ->
         <<ListAction("restore", c.entity.id, c.entity)>>
    [] OTHER -> <<>>

\* toast.error calls of a handler that looks at success only
ToastsOnFail(c) == IF c.result = "fail" THEN 1 ELSE 0

\* toast.error calls of a ListsContainer handler once its call has returned
ListsToasts(c) ==
  IF \/ c.result = "fail"
     \/ c.kind = "createList" /\ c.result = "void"
     \/ c.kind = "createList" /\ c.result = "ok" /\ c.reply = NoList
  THEN 1
  ELSE 0

\* the second deliveries of the confirmation behind call c, remembered while
\* the call is in flight
SecondDeliveries(c) ==
  { d \in dropped :
      /\ d[2] = c.entity.id
      /\ \/ d[1] = "handleConfirmRename" /\ c.kind = "renameList"
         \/ d[1] = "handleConfirmDelete" /\ c.kind = "deleteList" }

ListsResolve(c) ==
  /\ c \in calls
  /\ c.stage = "answered"
  /\ c.kind \in ListKinds
  /\ calls' = calls \ {c}
  /\ listUpdates' = listUpdates \o ListsOnResult(c)
  /\ toasts' = toasts + ListsToasts(c)
  /\ isCreating' = IF c.kind = "createList" /\ Returns(c) THEN FALSE ELSE isCreating
  /\ isDeleting' = IF c.kind = "deleteList" /\ Returns(c) THEN FALSE ELSE isDeleting
  /\ isLeaving' = IF c.kind = "leaveSharedList" /\ Returns(c) THEN FALSE ELSE isLeaving
  /\ processingRenameRef' = IF c.kind = "renameList" THEN FALSE ELSE processingRenameRef
  /\ dropped' = dropped \ SecondDeliveries(c)
  /\ UNCHANGED <<component, serverVars, allLists, started, clock, unwritten,
                 uuids, listToDelete, listToLeave, editingListId, skipBlurRef,
                 itemsVars, shareVars>>

\* the store actions a ShoppingList handler dispatches once its call has returned
ItemsOnResult(c) ==
  CASE c.kind = "addItem" /\ c.result = "fail" ->
         <<ItemAction("delete", c.temp, <<>>, NoId)>>
    [] c.kind = "renameItem" /\ c.result = "fail" ->
         <<ItemAction("rename", c.entity.id, c.entity.name, NoId)>>
    [] OTHER -> <<>>

ItemsToasts(c) == IF c.kind \in {"addItem", "renameItem"} /\ c.result = "fail" THEN 1 ELSE 0

ItemsResolve(c) ==
  /\ c \in calls
  /\ c.stage = "answered"
  /\ c.kind \in ItemKinds
  /\ calls' = calls \ {c}
  /\ itemUpdates' = itemUpdates \o ItemsOnResult(c)
  /\ toasts' = toasts + ItemsToasts(c)
  /\ isAddingItem' = IF c.kind = "addItem" /\ Returns(c) THEN FALSE ELSE isAddingItem
  /\ newItemName' = IF c.kind = "addItem" /\ c.result = "fail" THEN c.text ELSE newItemName
  /\ isDeletingItem' = IF c.kind = "deleteItem" /\ Returns(c) THEN FALSE ELSE isDeletingItem
  /\ processingItemRenameRef' =
       IF c.kind = "renameItem" THEN FALSE ELSE processingItemRenameRef
  /\ UNCHANGED <<component, serverVars, allLists, started, clock, dropped, unwritten,
                 listsVars, itemToDelete, editingItemId, skipItemBlurRef, shareVars>>

\* the store actions a ShareListForm handler dispatches once its call has returned
ShareOnResult(c) ==
  CASE c.kind = "shareList" /\ c.result = "fail" ->
         <<ShareAction("remove", c.entity)>>
    [] c.kind = "removeSharedUser" /\ c.result = "fail" ->
         <<ShareAction("add", c.entity)>>
    [] OTHER -> <<>>

ShareToasts(c) == IF c.result = "fail" THEN 1 ELSE 0

ShareResolve(c) ==
  /\ c \in calls
  /\ c.stage = "answered"
  /\ c.kind \in ShareKinds
  /\ calls' = calls \ {c}
  /\ shareUpdates' = shareUpdates \o ShareOnResult(c)
  /\ toasts' = toasts + ShareToasts(c)
  /\ email' = IF c.kind = "shareList" /\ c.result = "fail" THEN c.text ELSE email
  /\ isRemovingUser' =
       IF c.kind = "removeSharedUser" /\ Returns(c) THEN FALSE ELSE isRemovingUser
  /\ UNCHANGED <<component, serverVars, allLists, started, clock, dropped, unwritten,
                 listsVars, itemsVars, userToRemove>>

(***************************************************************************)
(* The page is rendered again and hands down the lists of the data base.   *)
(* useOptimistic replays the queued actions over the new passthrough while *)
(* a call is pending and discards them once none is.                       *)
(***************************************************************************)
\* a store that never discards an action
KeptForever(updates) == updates

Kept(updates) == IF calls = {} THEN <<>> ELSE updates

Refresh ==
  /\ component \in Components
  /\ allLists' = PageLists(dbLists)
  /\ listUpdates' = Kept(listUpdates)
  /\ itemUpdates' = Kept(itemUpdates)
  /\ shareUpdates' = Kept(shareUpdates)
  /\ UNCHANGED <<component, serverVars, calls, started, toasts, clock, dropped,
                 unwritten, uuids, isCreating, isDeleting, isLeaving, listToDelete,
                 listToLeave, editingListId, processingRenameRef, skipBlurRef, newItemName,
                 isAddingItem, itemToDelete, isDeletingItem, editingItemId,
                 processingItemRenameRef, skipItemBlurRef, email, userToRemove, isRemovingUser>>

Results == {"ok", "fail", "reject"}

\* the server and the page, whatever the component
Shared ==
  \/ \E c \in calls, result \in Results : ServerExec(c, result)
  \/ Refresh

ListsOnly ==
  \/ \E typed \in TypedTitles : SubmitCreate(typed)
  \/ \E id \in Ids(optimisticLists) : StartRename(id)
  \/ CancelRename
  \/ EscapeBlur
  \/ \E typed \in TypedTitles : ConfirmRename(typed)
  \/ \E typed \in TypedTitles : BlurRename(typed)
  \/ \E id \in Ids(optimisticLists) : ClickDelete(id)
  \/ CancelDelete
  \/ ConfirmDelete
  \/ \E id \in Ids(optimisticLists) : ClickLeave(id)
  \/ CancelLeave
  \/ ConfirmLeave
  \/ \E c \in calls : RenameInputBlur(c)
  \/ \E c \in calls : DeleteModalSecondConfirm(c)
  \/ \E c \in calls : ListsResolve(c)

ItemsOnly ==
  \/ \E typed \in TypedTitles, now \in Now : SubmitAdd(typed, now)
  \/ \E id \in Ids(optimisticItems) : Toggle(id)
  \/ \E id \in Ids(optimisticItems) : StartItemRename(id)
  \/ CancelItemRename
  \/ EscapeItemBlur
  \/ \E typed \in TypedTitles : ConfirmItemRename(typed)
  \/ \E typed \in TypedTitles : BlurItemRename(typed)
  \/ \E id \in Ids(optimisticItems) : ClickDeleteItem(id)
  \/ CancelDeleteItem
  \/ ConfirmDeleteItem
  \/ \E c \in calls : ItemsResolve(c)

ShareOnly ==
  \/ \E typed \in TypedEmails, now \in Now : SubmitInvite(typed, now)
  \/ \E id \in Ids(optimisticSharedWith) : ClickRemoveUser(id)
  \/ CancelRemoveUser
  \/ ConfirmRemoveUser
  \/ \E c \in calls : ShareResolve(c)

Next == ListsOnly \/ ItemsOnly \/ ShareOnly \/ Shared

Spec == Init /\ [][Next]_vars

\* the user works in ListsContainer
ListsNext == ListsOnly \/ Shared

ListsInit == Init /\ component = "ListsContainer"

ListsSpec == ListsInit /\ [][ListsNext]_vars

\* the user works in the ShoppingList of list A
ItemsNext == ItemsOnly \/ Shared

ItemsInit == Init /\ component = "ShoppingList"

ItemsSpec == ItemsInit /\ [][ItemsNext]_vars

\* the user works in the ShareListForm of list A
ShareNext == ShareOnly \/ Shared

ShareInit == Init /\ component = "ShareListForm"

ShareSpec == ShareInit /\ [][ShareNext]_vars

\* The user works in ListsContainer and the rename input of list B, which
\* belongs to U2, is open: the page offers the input to whom it takes for the
\* owner, the server decides by its own session.
RenameInit ==
  /\ component = "ListsContainer"
  /\ dbLists = InitDb
  /\ dbSeq = 3
  /\ allLists = PageLists(InitDb)
  /\ calls = {}
  /\ started = 0
  /\ toasts = 0
  /\ clock = 0
  /\ dropped = {}
  /\ unwritten = {}
  /\ listUpdates = <<>>
  /\ uuids = 0
  /\ isCreating = FALSE
  /\ isDeleting = FALSE
  /\ isLeaving = FALSE
  /\ listToDelete = NoList
  /\ listToLeave = NoList
  /\ editingListId = ListB
  /\ processingRenameRef = FALSE
  /\ skipBlurRef = FALSE
  /\ itemUpdates = <<>>
  /\ newItemName = <<>>
  /\ isAddingItem = FALSE
  /\ itemToDelete = NoItem
  /\ isDeletingItem = FALSE
  /\ editingItemId = NoId
  /\ processingItemRenameRef = FALSE
  /\ skipItemBlurRef = FALSE
  /\ shareUpdates = <<>>
  /\ email = <<>>
  /\ userToRemove = NoUser
  /\ isRemovingUser = FALSE

RenameSpec == RenameInit /\ [][ListsNext]_vars

(***************************************************************************)
(* The two creation forms with over-long input: the inputs of              *)
(* CreateListForm and of the add form carry no maxLength, so a title of 51 *)
(* characters and a name of 101 can be submitted.                          *)
(***************************************************************************)
LongTitle == [i \in 1..51 |-> "l"]

LongName == [i \in 1..101 |-> "l"]

FormsNext ==
  \/ SubmitCreate(LongTitle)
  \/ \E now \in Now : SubmitAdd(LongName, now)
  \/ Next

FormsSpec == Init /\ [][FormsNext]_vars

(***************************************************************************)
(* The handlers against a call that resolves with no value, or with        *)
(* {success: true} and no list.  The server actions of the repository      *)
(* return an object wherever a handler reads one; the handlers test for a  *)
(* missing one all the same (`result && ...`, `!result || ...`,            *)
(* `!result.list`).  Whether such a call wrote to the data base is open.   *)
(***************************************************************************)
ResolveWithNothing(c, applied) ==
  /\ c \in calls
  /\ c.stage = "sent"
  /\ c.kind \notin VoidKinds
  /\ applied => Effective(dbLists, c)
  /\ dbLists' = IF applied THEN DbApply(dbLists, dbSeq, c) ELSE dbLists
  /\ dbSeq' = IF applied /\ c.kind \in {"createList", "addItem"} THEN dbSeq + 1 ELSE dbSeq
  /\ calls' = (calls \ {c}) \cup {Answered(c, "void", NoList)}
  /\ UNCHANGED <<component, allLists, started, toasts, clock, dropped, unwritten,
                 listsVars, itemsVars, shareVars>>

ResolveWithNoList(c) ==
  /\ c \in calls
  /\ c.stage = "sent"
  /\ c.kind = "createList"
  /\ Effective(dbLists, c)
  /\ dbLists' = DbApply(dbLists, dbSeq, c)
  /\ dbSeq' = dbSeq + 1
  /\ calls' = (calls \ {c}) \cup {Answered(c, "ok", NoList)}
  /\ UNCHANGED <<component, allLists, started, toasts, clock, dropped, unwritten,
                 listsVars, itemsVars, shareVars>>

HandlersNext ==
  \/ \E c \in calls, applied \in BOOLEAN : ResolveWithNothing(c, applied)
  \/ \E c \in calls : ResolveWithNoList(c)
  \/ Next

HandlersSpec == Init /\ [][HandlersNext]_vars

(***************************************************************************)
(* The server actions on their own.  A server action is an endpoint: the   *)
(* session user can send it any form data, whatever the page offers.  The  *)
(* data base holds list A under one of two owners, shared with nobody or   *)
(* with one other user, so that the session user owns A, is shared on A,   *)
(* or has no access to A.                                                  *)
(***************************************************************************)
AccessDb(owner, shared) ==
  <<List(ListA, Str("a"), owner, InitItems, shared)>> \o Tail(InitDb)

ServerDbs ==
  { AccessDb(owner, shared) :
      owner \in {Me, U2},
      shared \in {<<>>} \cup { <<SharedUser(u, Email(u))>> : u \in Users } } \
  { AccessDb(owner, <<SharedUser(owner, Email(owner))>>) : owner \in {Me, U2} }

\* the form data sent to the server actions: the list is A, the item its first
ServerRequests ==
  { Call(0, "deleteList", InitDb[1], NoId, <<>>, FALSE),
    Call(0, "renameList", InitDb[1], NoId, Str("d"), FALSE),
    Call(0, "leaveSharedList", InitDb[1], NoId, <<>>, FALSE),
    Call(0, "removeSharedUser", SharedUser(U2, Email(U2)), NoId, <<>>, FALSE),
    Call(0, "removeSharedUser", SharedUser(U3, Email(U3)), NoId, <<>>, FALSE),
    Call(0, "addItem", NoItem, NoId, Str("d"), FALSE),
    Call(0, "deleteItem", InitItems[1], NoId, <<>>, FALSE),
    Call(0, "toggleItem", InitItems[1], NoId, <<>>, FALSE),
    Call(0, "renameItem", InitItems[1], NoId, Str("d"), FALSE) } \cup
  { Call(0, "shareList", NoUser, NoId, mail, FALSE) :
      mail \in TypedEmails \cup {Email(Me)} }

ServerInit ==
  /\ component = "server"
  /\ dbLists \in ServerDbs
  /\ dbSeq = 3
  /\ allLists = PageLists(dbLists)
  /\ Idle

\* the session user sends a request to a server action
Request(r) ==
  /\ component = "server"
  /\ started < MaxMutations
  /\ calls' = calls \cup {[r EXCEPT !.n = started + 1]}
  /\ started' = started + 1
  /\ UNCHANGED <<component, serverVars, allLists, toasts, clock, dropped, unwritten,
                 listsVars, itemsVars, shareVars>>

ServerNext ==
  \/ \E r \in ServerRequests : Request(r)
  \/ \E c \in calls, result \in Results : ServerExec(c, result)

ServerSpec == ServerInit /\ [][ServerNext]_vars

(***************************************************************************)
(* Progress: every call is processed by the server, or its transport       *)
(* fails, and the handler that awaits an answered call runs on.            *)
(***************************************************************************)
Processed == \E c \in calls, result \in Results : ServerExec(c, result)

Resumed ==
  \E c \in calls : ListsResolve(c) \/ ItemsResolve(c) \/ ShareResolve(c)

LiveSpec == Spec /\ WF_vars(Processed) /\ WF_vars(Resumed)

(***************************************************************************)
(* The list reducer on its own: a snapshot drawn from a pool of lists, a   *)
(* delete of one of its lists, then the restore of that list.              *)
(***************************************************************************)
ListPool ==
  { InitDb[1], InitDb[2], InitDb[3], List(<<"list", 4>>, Str("d"), Me, <<>>, <<>>) }

\* the sequences of distinct lists of the pool, up to MaxLen long
Snapshots ==
  { s \in UNION { [1..n -> ListPool] : n \in 0..MaxLen } :
      \A i, j \in 1..Len(s) : i # j => s[i].id # s[j].id }

ReducerInit ==
  /\ component = "reducer"
  /\ dbLists = InitDb
  /\ dbSeq = 3
  /\ allLists \in Snapshots
  /\ Idle

\* setOptimisticLists({action: "delete", listId})
ReducerDelete(id) ==
  /\ component = "reducer"
  /\ listUpdates = <<>>
  /\ listUpdates' = <<ListAction("delete", id, NoList)>>
  /\ UNCHANGED <<component, serverVars, allLists, calls, started, toasts, clock, dropped,
                 unwritten, uuids, isCreating, isDeleting, isLeaving, listToDelete,
                 listToLeave, editingListId, processingRenameRef, skipBlurRef, itemsVars, shareVars>>

\* setOptimisticLists({action: "restore", listId, list}) of the list just deleted
ReducerRestore ==
  /\ component = "reducer"
  /\ Len(listUpdates) = 1
  /\ listUpdates' =
       Append(listUpdates,
              ListAction("restore", listUpdates[1].listId,
                         ListProp(allLists, listUpdates[1].listId)))
  /\ UNCHANGED <<component, serverVars, allLists, calls, started, toasts, clock, dropped,
                 unwritten, uuids, isCreating, isDeleting, isLeaving, listToDelete,
                 listToLeave, editingListId, processingRenameRef, skipBlurRef, itemsVars, shareVars>>

ReducerNext ==
  \/ \E id \in Ids(allLists) : ReducerDelete(id)
  \/ ReducerRestore

ReducerSpec == ReducerInit /\ [][ReducerNext]_vars

(***************************************************************************)
(* The three reducers on their own: a collection drawn from a pool, then   *)
(* up to MaxUpdates actions dispatched to the store of that collection.    *)
(***************************************************************************)
Stores == {"optimisticLists", "optimisticItems", "optimisticSharedWith"}

\* a list as handleCreateList makes it up
TempList == List(<<"temp", 1>>, Str("t"), Me, <<>>, <<>>)

\* the sequences of distinct elements of a pool, up to MaxLen long
DistinctSeqs(pool) ==
  { s \in UNION { [1..n -> pool] : n \in 0..MaxLen } :
      \A i, j \in 1..Len(s) : i # j => s[i].id # s[j].id }

ItemPool == { InitItems[1], InitItems[2], Item(<<"temp", 0>>, Str("d"), FALSE, Me) }

UserPool ==
  { SharedUser(U2, Email(U2)), SharedUser(U3, Email(U3)),
    SharedUser(<<"temp", 0>>, <<"w", "@">>) }

\* the actions dispatched to optimisticLists
ListActions ==
  { ListAction("add", NoId, TempList),
    ListAction("add", NoId, InitDb[1]),
    ListAction("delete", TempList.id, NoList),
    ListAction("delete", ListA, NoList),
    ListAction("restore", ListA, InitDb[1]),
    ListAction("replace", TempList.id, CreatedList(3, Str("t"))),
    ListAction("rename", ListA, List(ListA, Str("d"), Me, <<>>, <<>>)) }

\* the actions dispatched to optimisticItems
ItemActions ==
  { ItemAction("add", <<"temp", 0>>, Str("e"), Me),
    ItemAction("add", <<"item", 1>>, Str("e"), Me),
    ItemAction("delete", <<"temp", 0>>, <<>>, NoId),
    ItemAction("delete", <<"item", 1>>, <<>>, NoId),
    ItemAction("toggle", <<"item", 1>>, <<>>, NoId),
    ItemAction("rename", <<"item", 1>>, Str("d"), NoId) }

\* the actions dispatched to optimisticSharedWith
ShareActions ==
  { ShareAction("add", SharedUser(<<"temp", 0>>, <<"w", "@">>)),
    ShareAction("add", SharedUser(<<"temp", 0>>, Email(U3))),
    ShareAction("add", SharedUser(U2, Email(U2))),
    ShareAction("remove", SharedUser(<<"temp", 0>>, <<"w", "@">>)),
    ShareAction("remove", SharedUser(U2, Email(U2))) }

StoresInit ==
  /\ component \in Stores
  /\ dbLists = InitDb
  /\ dbSeq = 3
  /\ allLists \in
       CASE component = "optimisticLists" -> DistinctSeqs(ListPool \cup {TempList})
         [] component = "optimisticItems" ->
              { <<[InitDb[1] EXCEPT !.items = its]>> : its \in DistinctSeqs(ItemPool) }
         [] OTHER ->
              { <<[InitDb[1] EXCEPT !.sharedWith = us]>> : us \in DistinctSeqs(UserPool) }
  /\ Idle

\* setOptimisticLists(a)
SetOptimisticLists(a) ==
  /\ component = "optimisticLists"
  /\ Len(listUpdates) < MaxUpdates
  /\ listUpdates' = Append(listUpdates, a)
  /\ UNCHANGED <<component, serverVars, allLists, calls, started, toasts, clock, dropped,
                 unwritten, uuids, isCreating, isDeleting, isLeaving, listToDelete,
                 listToLeave, editingListId, processingRenameRef, skipBlurRef, itemsVars, shareVars>>

\* setOptimisticItems(a)
SetOptimisticItems(a) ==
  /\ component = "optimisticItems"
  /\ Len(itemUpdates) < MaxUpdates
  /\ itemUpdates' = Append(itemUpdates, a)
  /\ UNCHANGED <<component, serverVars, allLists, calls, started, toasts, clock, dropped,
                 unwritten, listsVars, newItemName, isAddingItem, itemToDelete,
                 isDeletingItem, editingItemId, processingItemRenameRef, skipItemBlurRef, shareVars>>

\* setOptimisticSharedWith(a)
SetOptimisticSharedWith(a) ==
  /\ component = "optimisticSharedWith"
  /\ Len(shareUpdates) < MaxUpdates
  /\ shareUpdates' = Append(shareUpdates, a)
  /\ UNCHANGED <<component, serverVars, allLists, calls, started, toasts, clock, dropped,
                 unwritten, listsVars, itemsVars, email, userToRemove, isRemovingUser>>

StoresNext ==
  \/ \E a \in ListActions : SetOptimisticLists(a)
  \/ \E a \in ItemActions : SetOptimisticItems(a)
  \/ \E a \in ShareActions : SetOptimisticSharedWith(a)

StoresSpec == StoresInit /\ [][StoresNext]_vars

(***************************************************************************)
(* Vocabulary of the properties.                                           *)
(***************************************************************************)
\* the handler of call c runs on from its await in this step
Resolved(c) == c \in calls /\ c.stage = "answered" /\ c \notin calls'

\* the id of the entity a mutation owns
OwnId(c) == IF c.temp # NoId THEN c.temp ELSE c.entity.id

\* the collection of the component the user works in
View ==
  CASE component = "ShoppingList"  -> optimisticItems
    [] component = "ShareListForm" -> optimisticSharedWith
    [] OTHER                       -> optimisticLists

\* x is the entity of mutation c: its tentative record, the record of its id,
\* or the record the server answered with
Own(x, c) ==
  \/ x.id = OwnId(c) /\ (IsTemp(x.id) => x = c.entity)
  \/ c.reply # NoList /\ x.id = c.reply.id

\* the collection without the entity of mutation c
Others(state, c) == SelectSeq(state, LAMBDA x : ~Own(x, c))

\* how often an id occurs in a collection
Count(state, id) == Cardinality({ i \in 1..Len(state) : state[i].id = id })

Distinct(state) == \A id \in Ids(state) : Count(state, id) = 1

\* x stands before y in the sequence of ids s
Before(s, x, y) ==
  \E i, j \in 1..Len(s) : i < j /\ s[i] = x /\ s[j] = y

\* the ids common to s and t stand in the same relative order in both
SameOrder(s, t) ==
  \A x, y \in { s[i] : i \in 1..Len(s) } \cap { t[i] : i \in 1..Len(t) } :
    Before(s, x, y) <=> Before(t, x, y)

\* the optimistic edit of mutation c is not in effect in the collection
RolledBack(state, c) ==
  CASE c.kind \in {"createList", "addItem", "shareList"} ->
         \A i \in 1..Len(state) : ~Own(state[i], c)
    [] c.kind \in {"deleteList", "leaveSharedList", "deleteItem", "removeSharedUser"} ->
         Count(state, c.entity.id) = 1
    [] c.kind = "renameList" ->
         \A i \in 1..Len(state) : state[i].id = c.entity.id => state[i].title = c.entity.title
    [] c.kind = "renameItem" ->
         \A i \in 1..Len(state) : state[i].id = c.entity.id => state[i].name = c.entity.name
    [] c.kind = "toggleItem" ->
         \A i \in 1..Len(state) :
           state[i].id = c.entity.id => state[i].isCompleted = c.entity.isCompleted
    [] OTHER -> TRUE

\* the mutation kinds whose server action answers {success:false}
AnsweringKinds == (ListKinds \cup ItemKinds \cup ShareKinds) \ VoidKinds

(***************************************************************************)
(* C1.  Round trip of create-list.  Once create-list is triggered with     *)
(* title T the visible lists hold a tentative list (temp id) with title T  *)
(* owned by the acting user; when createList returns success with a list   *)
(* record, the visible lists hold exactly one list with the authoritative  *)
(* id, it carries title T, and no list with the tentative id is left.      *)
(***************************************************************************)
C1_RoundTripCreate ==
  [][ /\ \A typed \in TypedTitles :
           SubmitCreate(typed) =>
             \E i \in 1..Len(optimisticLists') :
               /\ IsTemp(optimisticLists'[i].id)
               /\ optimisticLists'[i].title = Trim(typed)
               /\ optimisticLists'[i].ownerId = Me
      /\ \A c \in calls :
           (Resolved(c) /\ c.kind = "createList" /\ c.result = "ok" /\ c.reply # NoList) =>
             /\ Count(optimisticLists', c.reply.id) = 1
             /\ \A i \in 1..Len(optimisticLists') :
                  optimisticLists'[i].id = c.reply.id => optimisticLists'[i].title = c.text
             /\ ~SomeId(optimisticLists', c.temp) ]_vars

(***************************************************************************)
(* C2.  When the call of a create-list, delete-list, rename-list,          *)
(* leave-share, invite-share, revoke-share, add-item or rename-item        *)
(* mutation answers {success:false}, the handler undoes the optimistic     *)
(* edit of its own entity, raises exactly one failure notice, and leaves   *)
(* every other entity of the collection as it was.                         *)
(***************************************************************************)
C2_FailureRollsBackOwnEntityOnly ==
  [][ \A c \in calls :
        (Resolved(c) /\ c.kind \in AnsweringKinds /\ c.result = "fail") =>
          /\ RolledBack(View', c)
          /\ toasts' = toasts + 1
          /\ Others(View', c) = Others(View, c) ]_vars

(***************************************************************************)
(* C3.  A call that is rejected is treated like one that answers           *)
(* {success:false}: whatever the mutation kind, the optimistic edit is     *)
(* rolled back and exactly one failure notice is raised.                   *)
(***************************************************************************)
C3_RejectionRollsBack ==
  [][ \A c \in calls :
        (Resolved(c) /\ c.result = "reject") =>
          /\ RolledBack(View', c)
          /\ toasts' = toasts + 1 ]_vars

(***************************************************************************)
(* C4.  When a deleteItem or toggleItem call wrote nothing on the server,  *)
(* the optimistic deletion or toggle is reverted: once no call is in       *)
(* flight, the visible items and the items of the server agree on that     *)
(* item (present in both or in neither, with the same isCompleted).        *)
(***************************************************************************)
serverItems == ListProp(dbLists, listId).items

AgreeOn(id) ==
  /\ SomeId(optimisticItems, id) <=> SomeId(serverItems, id)
  /\ \A i \in 1..Len(optimisticItems), j \in 1..Len(serverItems) :
       (optimisticItems[i].id = id /\ serverItems[j].id = id) =>
         optimisticItems[i].isCompleted = serverItems[j].isCompleted

C5_IdsDistinct ==
  /\ Distinct(optimisticLists)
  /\ Distinct(optimisticItems)
  /\ Distinct(optimisticSharedWith)
  /\ \A c \in calls :
       (c.kind = "createList" /\ c.reply # NoList) =>
         ~(SomeId(optimisticLists, c.temp) /\ SomeId(optimisticLists, c.reply.id))

(***************************************************************************)
(* C6.  Restore is the inverse of delete on the list store: for a snapshot *)
(* S and a list E of S, delete(E.id) followed at once by restore(E.id, E)  *)
(* gives a collection equal to S, in content and in order.                 *)
(***************************************************************************)
C6_RestoreInverseOfDelete ==
  (component = "reducer" /\ Len(listUpdates) = 2) => optimisticLists = allLists

\* a list in the middle of a snapshot of three was deleted and restored
C6_Witness ==
  /\ component = "reducer"
  /\ Len(listUpdates) = 2
  /\ Len(allLists) = 3
  /\ FindIndex(allLists, listUpdates[1].listId) = 1
  /\ listUpdates[2].action = "restore"

(***************************************************************************)
(* C7.  When a delete-list or leave-share is rolled back while other       *)
(* optimistic edits are applied to the lists (a tentative list in front,   *)
(* or another list deleted and still absent), the restored list comes back *)
(* at its original position: the lists visible after the rollback stand in *)
(* the relative order they had just before the list was deleted.           *)
(***************************************************************************)
C7_RestoreKeepsOrder ==
  [][ \A c \in calls :
        (Resolved(c) /\ c.kind \in {"deleteList", "leaveSharedList"} /\ c.result = "fail") =>
          /\ SomeId(optimisticLists', c.entity.id)
          /\ SameOrder(c.before, IdSeq(optimisticLists')) ]_vars

(***************************************************************************)
(* C8.  For two mutations in flight at once on distinct lists, the visible *)
(* lists reached once both calls have resolved are the same whichever call *)
(* resolves first, and the commit or rollback of each changes only the     *)
(* list it owns.                                                           *)
(***************************************************************************)
C8_ResolutionOrderIrrelevant ==
  [][ /\ \A c1, c2 \in calls :
           (/\ c1.stage = "answered" /\ c2.stage = "answered"
            /\ c1.kind \in ListKinds /\ c2.kind \in ListKinds
            /\ OwnId(c1) # OwnId(c2)) =>
             ListsView(allLists, listUpdates \o ListsOnResult(c1) \o ListsOnResult(c2))
               = ListsView(allLists, listUpdates \o ListsOnResult(c2) \o ListsOnResult(c1))
      /\ \A c \in calls :
           (Resolved(c) /\ c.kind \in ListKinds) =>
             Others(optimisticLists', c) = Others(optimisticLists, c) ]_vars

(***************************************************************************)
(* C9.  Several mutations of one collection may be applied optimistically  *)
(* at once: a change the user confirms on an entity B while a mutation of  *)
(* another entity A is in flight (a rename of B during a rename of A) is   *)
(* still applied and its call issued, so a confirmed change is never       *)
(* dropped unless a rename of the same entity is in flight.                *)
(***************************************************************************)
C9_ConcurrentMutationsApplied ==
  \A d \in dropped : d[2] \in d[3]

(***************************************************************************)
(* C10.  Toggles of one item are serialized: while a toggle of item X is   *)
(* in flight its control is disabled, so at most one toggleItem call for X *)
(* is in flight at any time.                                               *)
(***************************************************************************)
C10_OneToggleInFlight ==
  \A c1, c2 \in calls :
    (c1.kind = "toggleItem" /\ c2.kind = "toggleItem" /\ c1.entity.id = c2.entity.id) =>
      c1 = c2

(***************************************************************************)
(* C11.  Double-submit guard.  When one rename confirmation reaches        *)
(* handleConfirmRename twice (Enter, then the blur of the input) or one    *)
(* delete confirmation is pressed twice (Enter and the confirm button),    *)
(* the second delivery applies no optimistic edit, issues no call and      *)
(* raises no notice; at most one renameList and one deleteList call is in  *)
(* flight for a list, and the handler of a call runs on from its await     *)
(* once, dispatching at most one store action.                             *)
(***************************************************************************)
C11_DoubleSubmitGuard ==
  [][ /\ \A c \in calls :
           (RenameInputBlur(c) \/ DeleteModalSecondConfirm(c)) =>
             /\ listUpdates' = listUpdates
             /\ calls' = calls
             /\ started' = started
             /\ toasts' = toasts
      /\ \A c1, c2 \in calls :
           (/\ c1.kind = c2.kind
            /\ c1.kind \in {"renameList", "deleteList"}
            /\ c1.entity.id = c2.entity.id) => c1 = c2
      /\ \A c \in calls :
           (Resolved(c) /\ c.kind \in {"renameList", "deleteList"}) =>
             /\ calls' = calls \ {c}
             /\ Len(listUpdates') <= Len(listUpdates) + 1 ]_vars

\* a rename and a delete were each confirmed twice while their calls were in flight
C11_Witness ==
  /\ \E d \in dropped : d[1] = "handleConfirmRename" /\ d[2] \in d[3]
  /\ \E d \in dropped : d[1] = "handleConfirmDelete" /\ d[2] \in d[3]

OneEntryPerEmail ==
  \A i, j \in 1..Len(optimisticSharedWith) :
    optimisticSharedWith[i].email = optimisticSharedWith[j].email => i = j

(***************************************************************************)
(* C13.  Duplicate invite guard.  The visible shared users never hold two  *)
(* entries with one e-mail address, whatever the invites and however their *)
(* calls end; and when an invite with address e fails, an entry with       *)
(* address e that was on screen before the invite was triggered is still   *)
(* on screen after the rollback.                                           *)
(***************************************************************************)
C13_DuplicateInviteGuard ==
  [][ /\ OneEntryPerEmail
      /\ \A c \in calls :
           (Resolved(c) /\ c.kind = "shareList" /\ c.result = "fail") =>
             \A i \in 1..Len(optimisticSharedWith) :
               (/\ optimisticSharedWith[i].email = c.text
                /\ \E k \in 1..Len(c.before) : c.before[k] = optimisticSharedWith[i].id) =>
                 SomeId(optimisticSharedWith', optimisticSharedWith[i].id) ]_vars

(***************************************************************************)
(* C14.  Unauthorized rename.  When the rename of a list that does not     *)
(* belong to the user is confirmed, renameList does not take effect: its   *)
(* answer is never success and the data base is left as it was; and when   *)
(* the call has answered {success:false} the list, where it is on screen,  *)
(* carries the title it had before the rename, as it does on the server.   *)
(***************************************************************************)
C14_UnauthorizedRename ==
  [][ \A c \in calls :
        (c.kind = "renameList" /\ c.entity.ownerId # Me) =>
          /\ (c.stage = "sent" /\ c \notin calls') =>
                /\ dbLists' = dbLists
                /\ \A a \in calls' \ calls : a.result # "ok"
          /\ (Resolved(c) /\ c.result = "fail") =>
                /\ RolledBack(optimisticLists', c)
                /\ RolledBack(dbLists', c) ]_vars

\* the rename of list B to "d" was shown, refused and taken back
C14_Witness ==
  /\ calls = {}
  /\ toasts = 1
  /\ \E i, j \in 1..Len(listUpdates) :
       /\ i < j
       /\ listUpdates[i] = ListAction("rename", ListB, [InitDb[2] EXCEPT !.title = Str("d")])
       /\ listUpdates[j] = ListAction("rename", ListB, InitDb[2])
  /\ ListProp(optimisticLists, ListB).title = Str("b")

C16_NoDuplicateAdd ==
  [][ /\ \A a \in ListActions :
           (SetOptimisticLists(a) /\ a.action = "add" /\ SomeId(optimisticLists, a.list.id))
             => optimisticLists' = optimisticLists
      /\ \A a \in ItemActions :
           (SetOptimisticItems(a) /\ a.action = "add" /\ SomeId(optimisticItems, a.itemId))
             => optimisticItems' = optimisticItems
      /\ \A a \in ShareActions :
           (/\ SetOptimisticSharedWith(a)
            /\ a.action = "add"
            /\ SomeId(optimisticSharedWith, a.user.id))
             => optimisticSharedWith' = optimisticSharedWith ]_vars

(***************************************************************************)
(* C17.  Idempotent delete.  In each of the three stores a delete (remove) *)
(* of an id that is not in the collection leaves the collection as it was, *)
(* and so does a delete that repeats the delete dispatched just before it: *)
(* deleting twice gives what deleting once gives.                          *)
(***************************************************************************)
C17_IdempotentDelete ==
  [][ /\ \A a \in ListActions :
           (/\ SetOptimisticLists(a)
            /\ a.action = "delete"
            /\ \/ ~SomeId(optimisticLists, a.listId)
               \/ listUpdates # <<>> /\ listUpdates[Len(listUpdates)] = a)
             => optimisticLists' = optimisticLists
      /\ \A a \in ItemActions :
           (/\ SetOptimisticItems(a)
            /\ a.action = "delete"
            /\ \/ ~SomeId(optimisticItems, a.itemId)
               \/ itemUpdates # <<>> /\ itemUpdates[Len(itemUpdates)] = a)
             => optimisticItems' = optimisticItems
      /\ \A a \in ShareActions :
           (/\ SetOptimisticSharedWith(a)
            /\ a.action = "remove"
            /\ \/ ~SomeId(optimisticSharedWith, a.user.id)
               \/ shareUpdates # <<>> /\ shareUpdates[Len(shareUpdates)] = a)
             => optimisticSharedWith' = optimisticSharedWith ]_vars

\* list A of a collection of three was deleted twice; the two others are left
C17_Witness ==
  /\ component = "optimisticLists"
  /\ Len(allLists) = 3
  /\ SomeId(allLists, ListA)
  /\ listUpdates = <<ListAction("delete", ListA, NoList), ListAction("delete", ListA, NoList)>>
  /\ Len(optimisticLists) = 2

(***************************************************************************)
(* C18.  Replace preserves position.  In a list collection in which the    *)
(* entity with id tempId stands at index i, replace(tempId, real) gives a  *)
(* collection of the same length with real at index i and every other      *)
(* entity unchanged at its index; when no entity has id tempId the         *)
(* collection is unchanged.                                                *)
(***************************************************************************)
C18_ReplacePreservesPosition ==
  [][ \A a \in ListActions :
        (SetOptimisticLists(a) /\ a.action = "replace") =>
          IF SomeId(optimisticLists, a.listId)
          THEN LET i == FindIndex(optimisticLists, a.listId) + 1
               IN  /\ Len(optimisticLists') = Len(optimisticLists)
                   /\ optimisticLists'[i] = a.list
                   /\ \A j \in 1..Len(optimisticLists) :
                        j # i => optimisticLists'[j] = optimisticLists[j]
          ELSE optimisticLists' = optimisticLists ]_vars

\* the tentative list stood second of three and was replaced there
C18_Witness ==
  /\ component = "optimisticLists"
  /\ Len(allLists) = 3
  /\ FindIndex(allLists, TempList.id) = 1
  /\ listUpdates = <<ListAction("replace", TempList.id, CreatedList(3, Str("t")))>>
  /\ optimisticLists[2] = CreatedList(3, Str("t"))

\* the store action a handler dispatches before it calls the server
OptimisticOf(c) ==
  CASE c.kind = "createList" -> ListAction("add", NoId, c.entity)
    [] c.kind \in {"deleteList", "leaveSharedList"} ->
         ListAction("delete", c.entity.id, NoList)
    [] c.kind = "renameList" ->
         ListAction("rename", c.entity.id, [c.entity EXCEPT !.title = c.text])
    [] c.kind = "addItem" -> ItemAction("add", c.temp, c.text, Me)
    [] c.kind = "deleteItem" -> ItemAction("delete", c.entity.id, <<>>, NoId)
    [] c.kind = "toggleItem" -> ItemAction("toggle", c.entity.id, <<>>, NoId)
    [] c.kind = "renameItem" -> ItemAction("rename", c.entity.id, c.text, NoId)
    [] c.kind = "shareList" -> ShareAction("add", c.entity)
    [] OTHER -> ShareAction("remove", c.entity)

\* the actions held by the store a call belongs to, and its collection
UpdatesOf(c) ==
  CASE c.kind \in ListKinds -> listUpdates
    [] c.kind \in ItemKinds -> itemUpdates
    [] OTHER -> shareUpdates

ViewOf(c) ==
  CASE c.kind \in ListKinds -> optimisticLists
    [] c.kind \in ItemKinds -> optimisticItems
    [] OTHER -> optimisticSharedWith

\* the optimistic edit of call c shows in the collection
Shown(c) ==
  CASE c.kind \in {"createList", "addItem"} -> SomeId(ViewOf(c), c.temp)
    [] c.kind = "shareList" ->
         \E i \in 1..Len(ViewOf(c)) : ViewOf(c)[i].email = c.text
    [] c.kind \in {"deleteList", "leaveSharedList", "deleteItem", "removeSharedUser"} ->
         ~SomeId(ViewOf(c), c.entity.id)
    [] c.kind = "renameList" ->
         \A i \in 1..Len(ViewOf(c)) :
           ViewOf(c)[i].id = c.entity.id => ViewOf(c)[i].title = c.text
    [] c.kind = "renameItem" ->
         \A i \in 1..Len(ViewOf(c)) :
           ViewOf(c)[i].id = c.entity.id => ViewOf(c)[i].name = c.text
    [] OTHER -> TRUE

(***************************************************************************)
(* C19.  Optimistic edit before the call.  In every state in which the     *)
(* call of a mutation is in flight or has answered and waits for its       *)
(* handler, the store of that mutation holds the optimistic action of the  *)
(* mutation; and in the state in which the call is issued the collection   *)
(* already shows the edit.                                                 *)
(***************************************************************************)
C19_OptimisticBeforeCall ==
  [][ /\ \A c \in calls' :
           (\E i \in 1..Len(UpdatesOf(c)) : UpdatesOf(c)[i] = OptimisticOf(c))'
      /\ \A c \in calls' \ calls :
           c.stage = "sent" => Shown(c)' ]_vars

\* the delete of list A is on screen while deleteList is still to be processed
C19_Witness ==
  /\ \E c \in calls : c.kind = "deleteList" /\ c.entity.id = ListA /\ c.stage = "sent"
  /\ ~SomeId(optimisticLists, ListA)
  /\ SomeId(allLists, ListA)

\* the handler of call c runs on by its commit path
Commits(c) ==
  /\ c.result = "ok"
  /\ toasts' = toasts
  /\ UpdatesOf(c)' = UpdatesOf(c)
       \o (IF c.kind = "createList" THEN <<ListAction("replace", c.temp, c.reply)>> ELSE <<>>)

\* the handler of call c runs on by its rollback path
RollsBack(c) ==
  /\ c.result = "fail"
  /\ toasts' = toasts + 1
  /\ Len(UpdatesOf(c)') = Len(UpdatesOf(c)) + 1

\* a mutation with this number has its call in flight or answered
Pending(n) == \E c \in calls : c.n = n

\* every mutation whose call is in flight or answered eventually has none
EveryCallEnds == \A n \in 1..MaxMutations : Pending(n) ~> ~Pending(n)

(***************************************************************************)
(* C20.  Every mutation ends once.  Provided every call is processed or    *)
(* rejected and every awaiting handler runs on, a mutation whose           *)
(* optimistic edit is applied ends: its handler runs on from the await     *)
(* once, by its commit path or by its rollback path and not by both, and   *)
(* a store receives actions only from a handler that starts a mutation or  *)
(* runs on from its await.                                                 *)
(***************************************************************************)
C20_EveryMutationEndsOnce ==
  /\ [][ /\ \A c \in calls : Resolved(c) => (Commits(c) \/ RollsBack(c))
         /\ (\/ listUpdates' # listUpdates
             \/ itemUpdates' # itemUpdates
             \/ shareUpdates' # shareUpdates) =>
               \/ started' = started + 1
               \/ \E c \in calls : Resolved(c)
               \/ calls = {} ]_vars
  /\ EveryCallEnds

(***************************************************************************)
(* C21.  Delete-with-restore keeps nested state.  The list a delete-list   *)
(* or leave-share handler captures is the list as it was on screen just    *)
(* before the optimistic deletion, and when the call answers               *)
(* {success:false} the list on screen after the rollback is that value:    *)
(* same title, ownerId, owner, items and sharedWith.                       *)
(***************************************************************************)
C21_RestoreKeepsNestedState ==
  [][ /\ \A c \in calls' \ calls :
           (c.stage = "sent" /\ c.kind \in {"deleteList", "leaveSharedList"}) =>
             ListProp(optimisticLists, c.entity.id) = c.entity
      /\ \A c \in calls :
           (Resolved(c) /\ c.kind \in {"deleteList", "leaveSharedList"} /\ c.result = "fail") =>
             ListProp(optimisticLists', c.entity.id) = c.entity ]_vars

(***************************************************************************)
(* C22.  Input that fails validation is rejected before any optimistic     *)
(* edit.  No add action with a list title that is empty after trimming or  *)
(* longer than 50 characters, or with an item name that is empty after     *)
(* trimming or longer than 100 characters, is ever dispatched to a store,  *)
(* and no tentative list or item with such a title or name is on screen.   *)
(***************************************************************************)
C22_InvalidInputNotApplied ==
  /\ \A i \in 1..Len(listUpdates) :
       listUpdates[i].action = "add" => TitleOk(Trim(listUpdates[i].list.title))
  /\ \A i \in 1..Len(itemUpdates) :
       itemUpdates[i].action = "add" => NameOk(Trim(itemUpdates[i].itemName))
  /\ \A i \in 1..Len(optimisticLists) :
       IsTemp(optimisticLists[i].id) => TitleOk(Trim(optimisticLists[i].title))
  /\ \A i \in 1..Len(optimisticItems) :
       IsTemp(optimisticItems[i].id) => NameOk(Trim(optimisticItems[i].name))

C24_TentativeIdsDistinct ==
  [][ \A c \in calls' \ calls :
        (c.stage = "sent" /\ c.kind \in {"createList", "addItem", "shareList"}) =>
          /\ IsTemp(c.temp)
          /\ ~SomeId(ViewOf(c), c.temp)
          /\ \A d \in calls : d.temp # c.temp ]_vars

\* the server processes call c in this step
Executed(c) == c \in calls /\ c.stage = "sent" /\ c \notin calls'

\* the list a call is about
TargetList(c) == IF c.kind \in {"deleteList", "renameList", "leaveSharedList"}
                 THEN c.entity.id
                 ELSE listId

(***************************************************************************)
(* C25.  List-level server actions are owner-only.  When deleteList,       *)
(* renameList, shareList or removeSharedUser is called on a list that the  *)
(* session user does not own, the call is never answered with success and  *)
(* the data base is left as it was: the list exists as before, with its    *)
(* title and its shared users.                                             *)
(***************************************************************************)
C25_ListActionsOwnerOnly ==
  [][ \A c \in calls :
        (/\ Executed(c)
         /\ c.kind \in {"deleteList", "renameList", "shareList", "removeSharedUser"}
         /\ SomeId(dbLists, TargetList(c))
         /\ ListProp(dbLists, TargetList(c)).ownerId # Me) =>
          /\ \A a \in calls' \ calls : a.result # "ok"
          /\ dbLists' = dbLists ]_vars

\* list A belongs to U2 and is shared with U3; the session user has asked to
\* delete it and to revoke U3, both were refused, and the list is as it was
C25_Witness ==
  /\ component = "server"
  /\ dbLists = AccessDb(U2, <<SharedUser(U3, Email(U3))>>)
  /\ \E c \in calls : c.kind = "deleteList" /\ c.result = "fail"
  /\ \E c \in calls :
       c.kind = "removeSharedUser" /\ c.entity.id = U3 /\ c.result = "fail"

\* the session user owns the list or is one of its shared users
HasAccess(l) == l.ownerId = Me \/ Me \in SharedIds(l)

(***************************************************************************)
(* C26.  Item-level server actions are limited to users with access.  The  *)
(* items of a list change on the server (by addItem, deleteItem,           *)
(* toggleItem or renameItem) only when the session user owns the list or   *)
(* is one of its shared users; for any other user they are left as they    *)
(* were.                                                                   *)
(***************************************************************************)
C26_ItemActionsNeedAccess ==
  [][ \A i \in 1..Len(dbLists) :
        (/\ SomeId(dbLists', dbLists[i].id)
         /\ ListProp(dbLists', dbLists[i].id).items # dbLists[i].items) =>
          HasAccess(dbLists[i]) ]_vars

(***************************************************************************)
(* C27.  shareList adds a user to the shared users of a list only if the   *)
(* invited address is that of a registered user and that user is not the   *)
(* owner of the list; otherwise the call is not answered with success and  *)
(* the data base is left as it was.  Nothing but the invited user is       *)
(* added, and after any sequence of shareList calls a user stands at most  *)
(* once among the shared users of a list.                                  *)
(***************************************************************************)
C27_ShareListAddsRegisteredNonOwner ==
  [][ /\ \A c \in calls :
           (Executed(c) /\ c.kind = "shareList") =>
             LET user == UserToShare(Trim(c.text))
                 before == ListProp(dbLists, listId)
                 after == ListProp(dbLists', listId)
             IN  /\ (user = NoId \/ user = before.ownerId) =>
                       /\ \A a \in calls' \ calls : a.result # "ok"
                       /\ dbLists' = dbLists
                 /\ SharedIds(after) \subseteq SharedIds(before) \cup {user}
                 /\ SharedIds(after) # SharedIds(before) =>
                       user \in Users /\ user # before.ownerId
      /\ \A i \in 1..Len(dbLists') : Distinct(dbLists'[i].sharedWith) ]_vars

\* the session user owns list A and has invited U3 twice, both calls were
\* answered with success, and U3 stands once among the shared users
C27_Witness ==
  /\ component = "server"
  /\ ListProp(dbLists, ListA).ownerId = Me
  /\ Cardinality({ c \in calls : /\ c.kind = "shareList"
                                  /\ c.result = "ok"
                                  /\ UserToShare(Trim(c.text)) = U3 }) = 2
  /\ Count(ListProp(dbLists, ListA).sharedWith, U3) = 1

\* what a restore gives when the list goes to the 0-based index at, or to the
\* end when there is no index (at < 0)
RestoredAt(a, at) ==
  /\ Len(optimisticLists') = Len(optimisticLists) + 1
  /\ FilterOutId(optimisticLists', a.list.id) = optimisticLists
  /\ LET i == (IF at < 0 THEN Len(optimisticLists) ELSE at) + 1
     IN  i \in 1..Len(optimisticLists') /\ optimisticLists'[i] = a.list

\* the same action was dispatched just before
Repeated(a) == listUpdates # <<>> /\ listUpdates[Len(listUpdates)] = a

C29_ToggleRenameOneField ==
  [][ /\ \A a \in ItemActions :
           (SetOptimisticItems(a) /\ a.action \in {"toggle", "rename"}) =>
             /\ Len(optimisticItems') = Len(optimisticItems)
             /\ \A i \in 1..Len(optimisticItems) :
                  optimisticItems'[i] =
                    IF optimisticItems[i].id # a.itemId
                    THEN optimisticItems[i]
                    ELSE IF a.action = "toggle"
                         THEN [optimisticItems[i] EXCEPT
                                 !.isCompleted = ~optimisticItems[i].isCompleted]
                         ELSE [optimisticItems[i] EXCEPT !.name = a.itemName]
             /\ ~SomeId(optimisticItems, a.itemId) => optimisticItems' = optimisticItems
      /\ \A a \in ListActions :
           (SetOptimisticLists(a) /\ a.action = "rename") =>
             /\ Len(optimisticLists') = Len(optimisticLists)
             /\ \A i \in 1..Len(optimisticLists) :
                  optimisticLists'[i] =
                    IF optimisticLists[i].id # a.listId
                    THEN optimisticLists[i]
                    ELSE [optimisticLists[i] EXCEPT !.title = a.list.title]
             /\ ~SomeId(optimisticLists, a.listId) => optimisticLists' = optimisticLists ]_vars

\* the first item of the list stands between two others and was toggled, and
\* nothing else: it is completed, the others are as they were
C29_Witness ==
  /\ component = "optimisticItems"
  /\ Len(items) = 3
  /\ items[2] = InitItems[1]
  /\ itemUpdates = <<ItemAction("toggle", <<"item", 1>>, <<>>, NoId)>>
  /\ optimisticItems = [items EXCEPT ![2] = [InitItems[1] EXCEPT !.isCompleted = TRUE]]

(***************************************************************************)
(* C30.  A failed revoke restores the shared user in place.  When          *)
(* removeSharedUser answers {success:false}, the removed user is among the *)
(* visible shared users again and stands where it stood before the         *)
(* optimistic removal: the users visible after the rollback stand in the   *)
(* relative order they had when the removal was confirmed.                 *)
(***************************************************************************)
C30_RevokeRestoresInPlace ==
  [][ \A c \in calls :
        (Resolved(c) /\ c.kind = "removeSharedUser" /\ c.result = "fail") =>
          /\ SomeId(optimisticSharedWith', c.entity.id)
          /\ SameOrder(c.before, IdSeq(optimisticSharedWith')) ]_vars

(***************************************************************************)
(* C31.  Escape cancels a rename.  Escape in a list or item rename input,  *)
(* and the blur that follows it, apply no store action and issue no call;  *)
(* and the blur of the input of an open edit session, with no rename call  *)
(* in flight, runs the confirm (which closes the session) whatever an      *)
(* earlier Escape left in the skip flag.                                   *)
(***************************************************************************)
C31_EscapeCancelsRename ==
  [][ /\ (CancelRename \/ EscapeBlur) =>
             listUpdates' = listUpdates /\ calls' = calls
      /\ (CancelItemRename \/ EscapeItemBlur) =>
             itemUpdates' = itemUpdates /\ calls' = calls
      /\ \A typed \in TypedTitles :
           /\ (BlurRename(typed) /\ ~processingRenameRef) => editingListId' = NoId
           /\ (BlurItemRename(typed) /\ ~processingItemRenameRef) =>
                  editingItemId' = NoId ]_vars

(***************************************************************************)
(* C32.  In-flight flags.  Each of isCreating, isAddingItem, isDeleting,   *)
(* isLeaving, isDeletingItem, isRemovingUser and the two rename latches is *)
(* set only while a call of its kind is in flight: in every state, a flag  *)
(* that is set has a call of its kind that has not been resolved yet,      *)
(* whatever the calls before it returned or threw.                         *)
(***************************************************************************)
FlagKinds ==
  << <<isCreating, "createList">>, <<isAddingItem, "addItem">>,
     <<isDeleting, "deleteList">>, <<isLeaving, "leaveSharedList">>,
     <<isDeletingItem, "deleteItem">>, <<isRemovingUser, "removeSharedUser">>,
     <<processingRenameRef, "renameList">>, <<processingItemRenameRef, "renameItem">> >>

C32_FlagsOnlyInFlight ==
  \A i \in 1..Len(FlagKinds) :
    FlagKinds[i][1] => \E c \in calls : c.kind = FlagKinds[i][2]

(***************************************************************************)
(* C33.  One call of each guarded kind at a time.  After every step at     *)
(* most one createList call, one addItem call of the list, one deleteList  *)
(* call and one renameList call is in flight; and a rename confirmation    *)
(* arriving while a renameList call is in flight applies no store action   *)
(* and issues no call (the create form, the add form and the delete button *)
(* take no trigger while their flag is set).                               *)
(***************************************************************************)
GuardedKinds == {"createList", "addItem", "deleteList", "renameList"}

C33_OneCallPerGuardedKind ==
  [][ /\ \A kind \in GuardedKinds :
           Cardinality({ c \in calls' : c.kind = kind }) <= 1
      /\ \A typed \in TypedTitles :
           (/\ InFlight("renameList") # {}
            /\ ConfirmRename(typed) \/ BlurRename(typed)) =>
             /\ listUpdates' = listUpdates
             /\ calls' = calls ]_vars

\* the rename of a second list was confirmed while the renameList call of the
\* first was in flight, and that call is still the only one
C33_Witness ==
  /\ processingRenameRef
  /\ Cardinality({ c \in calls : c.kind = "renameList" }) = 1
  /\ \E d \in dropped :
       d[1] = "handleConfirmRename" /\ d[3] # {} /\ d[2] \notin d[3]

(***************************************************************************)
(* C34.  No call carries a tentative id.  In every state, the entity of    *)
(* every toggleItem, renameItem, deleteItem, renameList, deleteList,       *)
(* leaveSharedList and removeSharedUser call in flight has an id that does *)
(* not start with "temp-".                                                 *)
(***************************************************************************)
RealIdKinds ==
  {"toggleItem", "renameItem", "deleteItem", "renameList", "deleteList",
   "leaveSharedList", "removeSharedUser"}

C34_NoCallWithTentativeId ==
  \A c \in calls : c.kind \in RealIdKinds => ~IsTemp(c.entity.id)

\* a tentative entity is on screen while a call on a real one is in flight
C34_Witness ==
  /\ \E i \in 1..Len(View) : IsTemp(View[i].id)
  /\ \E c \in calls : c.kind \in RealIdKinds /\ c.stage = "sent"

(***************************************************************************)
(* C35.  A call that resolves with no value.  When a deleteList,           *)
(* renameList, leaveSharedList, shareList, removeSharedUser, addItem or    *)
(* renameItem call resolves with no result value, its handler dispatches   *)
(* no store action and raises no notice.  When a createList call resolves  *)
(* with no result value, or with success and no list, its handler          *)
(* dispatches the deletion of the tentative list and raises one notice,    *)
(* and the tentative list is not on screen.                                *)
(***************************************************************************)
QuietKinds ==
  {"deleteList", "renameList", "leaveSharedList", "shareList", "removeSharedUser",
   "addItem", "renameItem"}

C35_NoResultValue ==
  [][ \A c \in calls :
        /\ (Resolved(c) /\ c.kind \in QuietKinds /\ c.result = "void") =>
             /\ listUpdates' = listUpdates
             /\ itemUpdates' = itemUpdates
             /\ shareUpdates' = shareUpdates
             /\ toasts' = toasts
        /\ (/\ Resolved(c)
            /\ c.kind = "createList"
            /\ c.result = "void" \/ (c.result = "ok" /\ c.reply = NoList)) =>
             /\ listUpdates' = Append(listUpdates, ListAction("delete", c.temp, NoList))
             /\ toasts' = toasts + 1
             /\ ~SomeId(optimisticLists', c.temp) ]_vars

\* the one call made was a createList that wrote its list and resolved with
\* no value or no list: the handler has run on, with one notice, and the
\* tentative list is gone
C35_Witness ==
  /\ uuids = 1
  /\ started = 1
  /\ calls = {}
  /\ Len(dbLists) = 4
  /\ toasts = 1
  /\ ~isCreating
  /\ \A i \in 1..Len(optimisticLists) : ~IsTemp(optimisticLists[i].id)

(***************************************************************************)
(* C36.  A rename to nothing new.  Enter in a rename input whose trimmed   *)
(* value is empty or equal to the title or name of the entity on screen    *)
(* dispatches no store action, issues no call and raises no notice; after  *)
(* it the edit session is closed and the rename latch is free.             *)
(***************************************************************************)
NothingNew(typed, current) == Trim(typed) = <<>> \/ Trim(typed) = current

\* Enter in the open rename input of a list (of an item) is handled, and
\* leaves nothing dispatched, called or notified, the session closed and the
\* latch free
ListRenameLetGo(typed) ==
  /\ ConfirmRename(typed)
  /\ listUpdates' = listUpdates
  /\ calls' = calls
  /\ toasts' = toasts
  /\ editingListId' = NoId
  /\ ~processingRenameRef'

ItemRenameLetGo(typed) ==
  /\ ConfirmItemRename(typed)
  /\ itemUpdates' = itemUpdates
  /\ calls' = calls
  /\ toasts' = toasts
  /\ editingItemId' = NoId
  /\ ~processingItemRenameRef'

C36_EmptyOrSameRename ==
  \A typed \in TypedTitles :
    /\ (/\ component = "ListsContainer"
        /\ editingListId # NoId
        /\ Visible(editingListId)
        /\ NothingNew(typed, Entity(editingListId).title)) =>
         ENABLED ListRenameLetGo(typed)
    /\ (/\ component = "ShoppingList"
        /\ editingItemId # NoId
        /\ ItemVisible(editingItemId)
        /\ NothingNew(typed, ItemEntity(editingItemId).name)) =>
         ENABLED ItemRenameLetGo(typed)

(***************************************************************************)
(* C37.  A rolled-back rename never stays visible.  When a rename of a     *)
(* list and, while its call was in flight, a deletion of the same list     *)
(* were both confirmed and both calls have answered {success:false}, in    *)
(* whichever order, then once both handlers have run on the list is on     *)
(* screen with the title the server holds, which is the title it had       *)
(* before the rename.                                                      *)
(***************************************************************************)
\* the store has taken, in this order, a rename of the list away from the
\* server's title, its deletion and the rollback of the rename, and after
\* the deletion its restore
RenameAndDeleteFailed(l) ==
  \E i, j, k, m \in 1..Len(listUpdates) :
    /\ i < j /\ j < k /\ j < m
    /\ listUpdates[i].action = "rename" /\ listUpdates[i].listId = l.id
    /\ listUpdates[i].list.title # l.title
    /\ listUpdates[j].action = "delete" /\ listUpdates[j].listId = l.id
    /\ listUpdates[k].action = "rename" /\ listUpdates[k].listId = l.id
    /\ listUpdates[k].list.title = l.title
    /\ listUpdates[m].action = "restore" /\ listUpdates[m].listId = l.id

NoRevoke ==
  /\ \A c \in calls : c.kind # "removeSharedUser"
  /\ \A i \in 1..Len(shareUpdates) :
       shareUpdates[i].action = "remove" => IsTemp(shareUpdates[i].user.id)

====
